---- MODULE Spec2Model ----
(***************************************************************************)
(* Model of the rebalance-wasm guest: the grid generators, the validity    *)
(* filter and the optimizer driver of rebalance/mod.rs, the file-drop host *)
(* RPC channel of common.rs, the runs of the guest from run() of lib.rs    *)
(* and from the entry points of the rebalance and emergency modules, and   *)
(* a harness for the hex formatting and the yield helpers.                 *)
(*                                                                         *)
(* Number representation.  The code computes in f64.  Here                 *)
(*   - token amounts are integers;                                         *)
(*   - a weight is an integer number of 1/WeightOne(step_pct) units, so    *)
(*     that both k * (1/S) and k * step_pct / 100 are represented exactly; *)
(*   - rates and utilizations are integers in units of 1/BPS (basis       *)
(*     points), each operation rounding once; max_pool_share is an        *)
(*     integer percentage;                                                 *)
(*   - a 12h return is the integer sum of alloc * apy, i.e. it is kept in  *)
(*     units of 1 / (BPS * 8760 / 12).                                     *)
(***************************************************************************)
EXTENDS Integers, Sequences, FiniteSets, TLC

VARIABLES
    \* ---- grid generator harness (pure functions applied to drawn inputs)
    g_pc, g_n, g_step, g_caps, g_out,
    \* ---- optimizer: inputs of optimize()
    total_assets, protocols, blocked_mask, config, irm_params, overflow_checks,
    \* ---- optimizer: locals of optimize()
    o_pc, weights, idx, best_return, best_allocations, best_apys, valid_count,
    result,
    \* ---- optimizer: which run on this input it is, and what the run before returned
    opt_run, prev_result,
    \* ---- RPC channel: the work directory and the host
    request_file, response_file, host_pending, host_seen,
    \* ---- RPC channel: the guest process and its current rpc_call
    run_no, call_no, r_pc, elapsed, response_str, rpc_result, r_log,
    \* ---- a run of the guest: entry point, stdin, environment, position, stdout
    entry, input, env, m_pc, rpc_config, optimizer_input, rpc_calls, stdout,
    \* ---- harness of pure functions: function applied, its input, its output
    c_pc, c_fn, c_in, c_out

gridVars == <<g_pc, g_n, g_step, g_caps, g_out>>
optInputs == <<total_assets, protocols, blocked_mask, config, irm_params, overflow_checks>>
optLocals == <<o_pc, weights, idx, best_return, best_allocations, best_apys, valid_count, result>>
rerunVars == <<opt_run, prev_result>>
optVars == <<optInputs, optLocals, rerunVars>>
dirVars == <<request_file, response_file>>
hostVars == <<host_pending, host_seen>>
guestVars == <<run_no, call_no, r_pc, elapsed, response_str, rpc_result, r_log>>
rpcVars == <<dirVars, hostVars, guestVars>>
runVars == <<entry, input, env, m_pc, rpc_config, optimizer_input, rpc_calls, stdout>>
calcVars == <<c_pc, c_fn, c_in, c_out>>
vars == <<gridVars, optVars, rpcVars, runVars, calcVars>>

\* what the actions of one component leave alone
OptFrame == UNCHANGED <<gridVars, rpcVars, runVars, calcVars, rerunVars>>
GridFrame == UNCHANGED <<optVars, rpcVars, runVars, calcVars>>
RpcFrame == UNCHANGED <<gridVars, optVars, runVars, calcVars>>
RunFrame == UNCHANGED <<gridVars, optVars, rpcVars, calcVars>>
CalcFrame == UNCHANGED <<gridVars, optVars, rpcVars, runVars>>

(***************************************************************************)
(* Bounds of the model                                                     *)
(***************************************************************************)
MaxGridProtocols == 3
MaxGridSteps == 20
MaxProtocols == 2
WideLen == 9
MaxRuns == 2
MaxGuards == 2
MaxHexDigits == 34

(***************************************************************************)
(* Program constants                                                       *)
(***************************************************************************)
BPS == 10000
PROTO_UNKNOWN == 0
PROTO_AAVE == 1
PROTO_SPARK == 2
PROTO_FLUID == 3
PROTO_MORPHO == 4
GUARD_STATUS_NORMAL == 0

\* Option<T>: None, or Some(x) holding x
None == <<>>
Some(x) == <<x>>
Unwrap(o) == o[1]

\* best_return: f64::NEG_INFINITY, or a finite value
NEG_INFINITY == [finite |-> FALSE]
Finite(x) == [finite |-> TRUE, value |-> x]

\* no Result yet
NoResult == [kind |-> "none"]

Min(a, b) == IF a <= b THEN a ELSE b
Max(a, b) == IF a >= b THEN a ELSE b

RECURSIVE SumSeq(_)
SumSeq(s) == IF s = <<>> THEN 0 ELSE Head(s) + SumSeq(Tail(s))

RECURSIVE Flatten(_)
Flatten(ss) == IF ss = <<>> THEN <<>> ELSE Head(ss) \o Flatten(Tail(ss))

(***************************************************************************)
(* Grid generation                                                         *)
(***************************************************************************)
\* let n_steps = 100 / step_pct
NSteps(step_pct) == 100 \div step_pct

\* The weight 1.0 in weight units.
WeightOne(step_pct) == 100 * NSteps(step_pct)

\* generate_weight_grid: step = 1.0 / n_steps; a component is k as f64 * step
UnboundedWeight(k, step_pct) == k * 100

\* generate_bounded_weight_grid: a component is k as f64 * step_pct as f64 / 100.0
BoundedWeight(k, step_pct) == k * step_pct * NSteps(step_pct)

\* mutant: the loop "for w in 0..remaining" with its upper end excluded
RECURSIVE generate_recursive_excl(_, _, _, _, _)
generate_recursive_excl(depth, n_protocols, remaining, step_pct, current) ==
    IF depth = n_protocols - 1
    THEN << Append(current, UnboundedWeight(remaining, step_pct)) >>
    ELSE Flatten([ w1 \in 1..remaining |->
            generate_recursive_excl(depth + 1, n_protocols, remaining - (w1 - 1), step_pct,
                                    Append(current, UnboundedWeight(w1 - 1, step_pct))) ])

\* generate_weight_grid::generate_recursive
RECURSIVE generate_recursive(_, _, _, _, _)
generate_recursive(depth, n_protocols, remaining, step_pct, current) ==
    IF depth = n_protocols - 1
    THEN << Append(current, UnboundedWeight(remaining, step_pct)) >>
    ELSE Flatten([ w1 \in 1..(remaining + 1) |->
            generate_recursive(depth + 1, n_protocols, remaining - (w1 - 1), step_pct,
                               Append(current, UnboundedWeight(w1 - 1, step_pct))) ])

generate_weight_grid(n_protocols, step_pct) ==
    generate_recursive(0, n_protocols, NSteps(step_pct), step_pct, <<>>)

\* mutant: the caps are not applied, every axis may take all the steps
MaxSteps_uncapped(max_weights_pct, step_pct) ==
    [ i \in DOMAIN max_weights_pct |-> 100 \div step_pct ]

\* max_steps[i] = (max_weights_pct[i] / step_pct).min(100 / step_pct)
MaxSteps(max_weights_pct, step_pct) ==
    [ i \in DOMAIN max_weights_pct |->
        Min(max_weights_pct[i] \div step_pct, 100 \div step_pct) ]

\* mutant: the last axis takes the remainder without the check against its cap
RECURSIVE generate_recursive_bounded_last_uncapped(_, _, _, _, _, _)
generate_recursive_bounded_last_uncapped(depth, n_protocols, remaining, step_pct, max_steps, current) ==
    IF depth = n_protocols - 1
    THEN << Append(current, BoundedWeight(remaining, step_pct)) >>
    ELSE LET max_for_this == Min(max_steps[depth + 1], remaining)
         IN  Flatten([ w1 \in 1..(max_for_this + 1) |->
                generate_recursive_bounded_last_uncapped(depth + 1, n_protocols,
                    remaining - (w1 - 1), step_pct, max_steps,
                    Append(current, BoundedWeight(w1 - 1, step_pct))) ])

\* generate_bounded_weight_grid::generate_recursive (depth is 0-based, max_steps 1-based)
RECURSIVE generate_recursive_bounded(_, _, _, _, _, _)
generate_recursive_bounded(depth, n_protocols, remaining, step_pct, max_steps, current) ==
    IF depth = n_protocols - 1
    THEN IF remaining <= max_steps[depth + 1]
         THEN << Append(current, BoundedWeight(remaining, step_pct)) >>
         ELSE <<>>
    ELSE LET max_for_this == Min(max_steps[depth + 1], remaining)
         IN  Flatten([ w1 \in 1..(max_for_this + 1) |->
                generate_recursive_bounded(depth + 1, n_protocols, remaining - (w1 - 1),
                    step_pct, max_steps, Append(current, BoundedWeight(w1 - 1, step_pct))) ])

generate_bounded_weight_grid(n_protocols, step_pct, max_weights_pct) ==
    generate_recursive_bounded(0, n_protocols, NSteps(step_pct), step_pct,
                               MaxSteps(max_weights_pct, step_pct), <<>>)

(***************************************************************************)
(* Yield models (rates and utilizations in units of 1/BPS)                 *)
(***************************************************************************)
calc_borrow_rate_single_kink(util, kink1, rate_kink1, rate_max) ==
    IF util <= 0 THEN 0
    ELSE IF util <= kink1
         THEN IF kink1 > 0 THEN (util * rate_kink1) \div kink1 ELSE 0
         ELSE LET excess == util - kink1
                  remaining == BPS - kink1
              IN  IF remaining <= 0 THEN rate_max
                  ELSE rate_kink1 + ((rate_max - rate_kink1) * excess) \div remaining

calc_borrow_rate_double_kink(util, kink1, rate_kink1, kink2, rate_kink2, rate_max) ==
    IF util <= 0 THEN 0
    ELSE IF util <= kink1
         THEN IF kink1 > 0 THEN (util * rate_kink1) \div kink1 ELSE 0
    ELSE IF kink2 > kink1 /\ util <= kink2
         THEN LET excess == util - kink1
                  segment == kink2 - kink1
              IN  rate_kink1 + ((rate_kink2 - rate_kink1) * excess) \div segment
    ELSE LET effective_kink == IF kink2 > kink1 THEN kink2 ELSE kink1
             effective_rate == IF kink2 > kink1 THEN rate_kink2 ELSE rate_kink1
             excess == util - effective_kink
             remaining == BPS - effective_kink
         IN  IF remaining <= 0 THEN rate_max
             ELSE effective_rate + ((rate_max - effective_rate) * excess) \div remaining

\* borrow_rate * util * (1.0 - reserve_factor)
calc_supply_rate(borrow_rate, util, reserve_factor) ==
    (((borrow_rate * util) \div BPS) * (BPS - reserve_factor)) \div BPS

\* mutant: a supply that shrinks by what is deposited
calc_new_utilization_minus(pool_supply, pool_borrow, delta) ==
    LET new_supply == pool_supply - delta
    IN  IF new_supply <= 0 THEN BPS
        ELSE Min((pool_borrow * BPS) \div new_supply, BPS)

calc_new_utilization(pool_supply, pool_borrow, delta) ==
    LET new_supply == pool_supply + delta
    IN  IF new_supply <= 0 THEN BPS
        ELSE Min((pool_borrow * BPS) \div new_supply, BPS)

calc_metamorpho_apy_after_delta(current_apy, pool_supply, delta) ==
    LET new_supply == pool_supply + delta
    IN  IF new_supply <= 0 THEN 0
        ELSE (current_apy * pool_supply) \div new_supply

IRM(k1, rk1, k2, rk2, rm, rf) ==
    [kink1 |-> k1, rate_at_kink1 |-> rk1, kink2 |-> k2, rate_at_kink2 |-> rk2,
     rate_at_max |-> rm, reserve_factor |-> rf]

get_default_irm_params(protocol_type) ==
    CASE protocol_type = PROTO_AAVE   -> IRM(9000, 400, 0, 0, 7500, 1000)
      [] protocol_type = PROTO_SPARK  -> IRM(9000, 400, 0, 0, 7500, 1000)
      [] protocol_type = PROTO_FLUID  -> IRM(9300, 1000, 0, 0, 2500, 0)
      [] protocol_type = PROTO_MORPHO -> IRM(10000, 500, 0, 0, 500, 0)
      [] OTHER                        -> IRM(9000, 500, 0, 0, 5000, 500)

calc_supply_apy_with_irm(protocol, delta, irm) ==
    IF protocol.protocol_type = PROTO_MORPHO
    THEN calc_metamorpho_apy_after_delta(protocol.current_apy, protocol.pool_supply, delta)
    ELSE LET new_util == calc_new_utilization(protocol.pool_supply, protocol.pool_borrow, delta)
             borrow_rate ==
                 IF irm.kink2 > 0 /\ irm.kink2 > irm.kink1
                 THEN calc_borrow_rate_double_kink(new_util, irm.kink1, irm.rate_at_kink1,
                          irm.kink2, irm.rate_at_kink2, irm.rate_at_max)
                 ELSE calc_borrow_rate_single_kink(new_util, irm.kink1, irm.rate_at_kink1,
                          irm.rate_at_max)
         IN  calc_supply_rate(borrow_rate, new_util, irm.reserve_factor)

calc_supply_apy(protocol, delta) ==
    IF protocol.protocol_type = PROTO_MORPHO
    THEN calc_metamorpho_apy_after_delta(protocol.current_apy, protocol.pool_supply, delta)
    ELSE LET new_util == calc_new_utilization(protocol.pool_supply, protocol.pool_borrow, delta)
             d == get_default_irm_params(protocol.protocol_type)
             borrow_rate ==
                 IF d.kink2 > 0 /\ d.kink2 > d.kink1
                 THEN calc_borrow_rate_double_kink(new_util, d.kink1, d.rate_at_kink1,
                          d.kink2, d.rate_at_kink2, d.rate_at_max)
                 ELSE calc_borrow_rate_single_kink(new_util, d.kink1, d.rate_at_kink1,
                          d.rate_at_max)
         IN  calc_supply_rate(borrow_rate, new_util, d.reserve_factor)

(***************************************************************************)
(* Constraint filtering                                                    *)
(***************************************************************************)
\* (blocked_mask & (1 << i)) != 0 on a u8, i 0-based.  Without overflow checks the
\* shift amount is taken modulo the width; with them a shift by 8 or more panics.
ShiftOverflows(i) == i >= 8
\* mutant: the mask tested one bit too high, "1 << (i + 1)"
IsBlockedBit_off_by_one(mask, i) == (mask \div (2 ^ ((i + 1) % 8))) % 2 = 1
IsBlockedBit(mask, i) == (mask \div (2 ^ (i % 8))) % 2 = 1

\* mutant: the protocol's own is_blocked field blocks it as well
AllocationOk_reads_field(alloc, protocol, is_blocked, max_pool_share, min_allocation) ==
    LET delta == alloc - protocol.our_balance
        new_pool_supply == protocol.pool_supply + delta
    IN  /\ ~((is_blocked \/ protocol.is_blocked) /\ alloc > protocol.our_balance)
        /\ ~(new_pool_supply > 0 /\ alloc * 100 > new_pool_supply * max_pool_share)
        /\ ~(alloc > 0 /\ alloc < min_allocation)

\* mutant: the dust check left out
AllocationOk_no_min(alloc, protocol, is_blocked, max_pool_share, min_allocation) ==
    LET delta == alloc - protocol.our_balance
        new_pool_supply == protocol.pool_supply + delta
    IN  /\ ~(is_blocked /\ alloc > protocol.our_balance)
        /\ ~(new_pool_supply > 0 /\ alloc * 100 > new_pool_supply * max_pool_share)

\* The three checks of one loop iteration (i 0-based); max_pool_share is a percentage.
AllocationOk(alloc, protocol, is_blocked, max_pool_share, min_allocation) ==
    LET delta == alloc - protocol.our_balance
        new_pool_supply == protocol.pool_supply + delta
    IN  /\ ~(is_blocked /\ alloc > protocol.our_balance)
        /\ ~(new_pool_supply > 0 /\ alloc * 100 > new_pool_supply * max_pool_share)
        /\ ~(alloc > 0 /\ alloc < min_allocation)

\* is_valid_allocation: "valid", "invalid", or "panic" (shift overflow under checks)
RECURSIVE is_valid_from(_, _, _, _, _, _, _)
is_valid_from(i, allocations, protos, mask, max_pool_share, min_allocation, checks) ==
    IF i >= Len(allocations) THEN "valid"
    ELSE IF checks /\ ShiftOverflows(i) THEN "panic"
    ELSE IF ~AllocationOk(allocations[i + 1], protos[i + 1], IsBlockedBit(mask, i),
                          max_pool_share, min_allocation)
         THEN "invalid"
    ELSE is_valid_from(i + 1, allocations, protos, mask, max_pool_share, min_allocation, checks)

is_valid_allocation(allocations, protos, mask, max_pool_share, min_allocation, checks) ==
    is_valid_from(0, allocations, protos, mask, max_pool_share, min_allocation, checks)

(***************************************************************************)
(* Optimizer                                                               *)
(***************************************************************************)
\* f64 -> usize cast of the quotient num / den (den # 0): negative values give 0,
\* non-negative ones are truncated.
AsUsize(num, den) ==
    LET n == IF den < 0 THEN -num ELSE num
        d == IF den < 0 THEN -den ELSE den
    IN  IF n <= 0 THEN 0 ELSE n \div d

\* max_allocs[i] / total_assets * 100.0 is +inf when max_pool_share = 1.0 and the pool
\* is not empty: the cast saturates at usize::MAX and the "+ 1" overflows.
CapOverflows(p, cfg) == cfg.max_pool_share = 100 /\ p.pool_supply > 0

\* ((ma / total_assets * 100.0) as usize + 1).min(100), with
\* ma = pool_supply * max_pool_share / (1.0 - max_pool_share); total > 0
TvlCapPct(p, cfg, total) ==
    IF cfg.max_pool_share = 100
    THEN IF p.pool_supply > 0
         THEN Min(0, 100)     \* usize::MAX + 1 wraps to 0 without overflow checks
         ELSE Min(0 + 1, 100) \* NaN or -inf casts to 0
    ELSE Min(AsUsize(p.pool_supply * cfg.max_pool_share * 100,
                     (100 - cfg.max_pool_share) * total) + 1, 100)

\* ((current_balances[i] / total_assets * 100.0) as usize).max(0)
BlockedCapPct(p, total) == Max(AsUsize(p.our_balance * 100, total), 0)

\* max_weights_pct as optimize derives it (i 1-based here, bit i-1 of the mask)
MaxWeightsPct(total, protos, mask, cfg) ==
    [ i \in 1..Len(protos) |->
        IF IsBlockedBit(mask, i - 1)
        THEN BlockedCapPct(protos[i], total)
        ELSE TvlCapPct(protos[i], cfg, total) ]

\* Under overflow checks the cap derivation aborts on "+ 1" or on "1 << i".
CapsPanic(protos, cfg, checks) ==
    checks /\ \E i \in 1..Len(protos) : CapOverflows(protos[i], cfg) \/ ShiftOverflows(i - 1)

\* the grid optimize selects
GridFor(total, protos, mask, cfg) ==
    IF total > 0
    THEN generate_bounded_weight_grid(Len(protos), cfg.step_pct,
                                      MaxWeightsPct(total, protos, mask, cfg))
    ELSE generate_weight_grid(Len(protos), cfg.step_pct)

\* allocations = weight_combo.map(|w| w * total_assets)
Materialize(weight_combo, total, step_pct) ==
    [ i \in 1..Len(weight_combo) |-> (weight_combo[i] * total) \div WeightOne(step_pct) ]

\* per-protocol APYs of a candidate
ApysOf(allocations, protos, irms) ==
    [ i \in 1..Len(allocations) |->
        LET delta == allocations[i] - protos[i].our_balance
        IN  IF irms = None
            THEN calc_supply_apy(protos[i], delta)
            ELSE calc_supply_apy_with_irm(protos[i], delta, Unwrap(irms)[i]) ]

\* sum of alloc * apy * time_factor, in units of 1 / (BPS * 8760 / 12)
Return12h(allocations, apys) ==
    SumSeq([ i \in 1..Len(allocations) |-> allocations[i] * apys[i] ])

\* mutant: the comparison turned around
Better_inverted(return_12h, best) == ~best.finite \/ return_12h < best.value

\* mutant: a later candidate with an equal return replaces the best, ">="
Better_or_equal(return_12h, best) == ~best.finite \/ return_12h >= best.value

\* return_12h > best_return, best_return starting at f64::NEG_INFINITY
Better(return_12h, best) == ~best.finite \/ return_12h > best.value

OptIdle ==
    /\ o_pc = "idle" /\ total_assets = 0 /\ protocols = <<>> /\ blocked_mask = 0
    /\ config = [step_pct |-> 1, max_pool_share |-> 20, min_allocation |-> 1000]
    /\ irm_params = None /\ overflow_checks = FALSE
    /\ weights = <<>> /\ idx = 0 /\ best_return = NEG_INFINITY
    /\ best_allocations = None /\ best_apys = None /\ valid_count = 0 /\ result = NoResult
    /\ opt_run = 0 /\ prev_result = NoResult

\* entry of optimize: the grid is generated (lines 739-764), or the derivation of the
\* caps aborts
OptGenerate ==
    /\ o_pc = "start"
    /\ ~(total_assets > 0 /\ CapsPanic(protocols, config, overflow_checks))
    /\ weights' = GridFor(total_assets, protocols, blocked_mask, config)
    /\ o_pc' = "generated"
    /\ UNCHANGED <<optInputs, idx, best_return, best_allocations, best_apys, valid_count, result>>
    /\ OptFrame

OptPanic ==
    /\ \/ /\ o_pc = "start"
          /\ total_assets > 0
          /\ CapsPanic(protocols, config, overflow_checks)
       \/ /\ o_pc = "eval"
          /\ idx <= Len(weights)
          /\ is_valid_allocation(Materialize(weights[idx], total_assets, config.step_pct),
                 protocols, blocked_mask, config.max_pool_share, config.min_allocation,
                 overflow_checks) = "panic"
    /\ o_pc' = "panicked"
    /\ UNCHANGED <<optInputs, weights, idx, best_return, best_allocations, best_apys,
                   valid_count, result>>
    /\ OptFrame

\* if n_scenarios == 0 { return Err(..) }
OptNoScenarios ==
    /\ o_pc = "generated"
    /\ Len(weights) = 0
    /\ result' = [kind |-> "err", error |-> "No valid weight combinations generated"]
    /\ o_pc' = "done"
    /\ UNCHANGED <<optInputs, weights, idx, best_return, best_allocations, best_apys, valid_count>>
    /\ OptFrame

OptBeginEval ==
    /\ o_pc = "generated"
    /\ Len(weights) > 0
    /\ idx' = 1
    /\ best_return' = NEG_INFINITY
    /\ best_allocations' = None
    /\ best_apys' = None
    /\ valid_count' = 0
    /\ o_pc' = "eval"
    /\ UNCHANGED <<optInputs, weights, result>>
    /\ OptFrame

\* one iteration of "for weight_combo in weights.iter()"
OptEvaluate ==
    /\ o_pc = "eval"
    /\ idx <= Len(weights)
    /\ LET allocations == Materialize(weights[idx], total_assets, config.step_pct)
           valid == is_valid_allocation(allocations, protocols, blocked_mask,
                        config.max_pool_share, config.min_allocation, overflow_checks)
           apys == ApysOf(allocations, protocols, irm_params)
           return_12h == Return12h(allocations, apys)
       IN  /\ valid # "panic"
           /\ IF valid = "invalid"
              THEN UNCHANGED <<best_return, best_allocations, best_apys, valid_count>>
              ELSE /\ valid_count' = valid_count + 1
                   /\ IF Better(return_12h, best_return)
                      THEN /\ best_return' = Finite(return_12h)
                           /\ best_allocations' = Some(allocations)
                           /\ best_apys' = Some(apys)
                      ELSE UNCHANGED <<best_return, best_allocations, best_apys>>
    /\ idx' = idx + 1
    /\ UNCHANGED <<optInputs, o_pc, weights, result>>
    /\ OptFrame

\* start_time.elapsed() in milliseconds: whatever the clock measured
ElapsedMs == {0, 1}

\* weights_decimal of a result, in weight units
WeightsDecimal(allocations, total, step_pct) ==
    [ i \in 1..Len(allocations) |->
        IF total > 0 THEN (allocations[i] * WeightOne(step_pct)) \div total ELSE 0 ]

\* if let (Some(allocations), Some(apys)) = (best_allocations, best_apys)
OptReturnBest ==
    /\ o_pc = "eval"
    /\ idx > Len(weights)
    /\ best_allocations # None /\ best_apys # None
    /\ \E elapsed_ms \in ElapsedMs :
       LET allocations == Unwrap(best_allocations)
           apys == Unwrap(best_apys)
       IN  result' = [kind |-> "ok", branch |-> "best",
                      allocations_decimal |-> allocations,
                      weights_decimal |-> WeightsDecimal(allocations, total_assets, config.step_pct),
                      expected_return_12h |-> best_return.value,
                      expected_apy_weighted |->
                          IF total_assets > 0
                          THEN Return12h(allocations, apys) \div total_assets
                          ELSE 0,
                      apys |-> apys,
                      scenarios_evaluated |-> Len(weights),
                      time_ms |-> elapsed_ms]
    /\ o_pc' = "done"
    /\ UNCHANGED <<optInputs, weights, idx, best_return, best_allocations, best_apys, valid_count>>
    /\ OptFrame

\* else: no valid allocation found - return current allocation
OptReturnCurrent ==
    /\ o_pc = "eval"
    /\ idx > Len(weights)
    /\ ~(best_allocations # None /\ best_apys # None)
    /\ \E elapsed_ms \in ElapsedMs :
       LET current_balances == [ i \in 1..Len(protocols) |-> protocols[i].our_balance ]
           current_apys == [ i \in 1..Len(protocols) |-> protocols[i].current_apy ]
       IN  result' = [kind |-> "ok", branch |-> "current",
                      allocations_decimal |-> current_balances,
                      weights_decimal |-> WeightsDecimal(current_balances, total_assets, config.step_pct),
                      expected_return_12h |-> 0,
                      expected_apy_weighted |-> 0,
                      apys |-> current_apys,
                      scenarios_evaluated |-> Len(weights),
                      time_ms |-> elapsed_ms]
    /\ o_pc' = "done"
    /\ UNCHANGED <<optInputs, weights, idx, best_return, best_allocations, best_apys, valid_count>>
    /\ OptFrame

(***************************************************************************)
(* Inputs of the optimizer                                                 *)
(***************************************************************************)
Proto(our, supply, borrow, apy, type) ==
    [our_balance |-> our, pool_supply |-> supply, pool_borrow |-> borrow,
     utilization |-> IF supply > 0 THEN (borrow * BPS) \div supply ELSE 0,
     current_apy |-> apy, is_blocked |-> FALSE, protocol_type |-> type]

\* Amounts are multiples of every WeightOne(step_pct) in StepPcts wherever a grid
\* weight multiplies them, so that w * total_assets is exact.
ProtoSet ==
    { Proto(0,    60000, 30000, 400, PROTO_AAVE),
      Proto(0,    12000,  6000, 300, PROTO_SPARK),
      Proto(3000, 30000,     0, 500, PROTO_MORPHO),
      Proto(6000, 24000, 20000, 800, PROTO_FLUID),
      Proto(500,   1000,   900, 600, PROTO_UNKNOWN) }

TotalAssetsSet == {0, 6000, 12000}
StepPcts == {25, 30, 50}
MaxPoolShares == {20, 50, 100}
MinAllocations == {0, 2000, 10000}
BlockedMasks == 0..3

\* IRM parameters as the snapshot transformer delivers them (a double-kink curve)
SnapshotIRM == IRM(8000, 400, 9000, 1000, 7500, 1000)

ProtoSeqs == UNION { [1..n -> ProtoSet] : n \in 1..MaxProtocols }

\* one input with more protocols than the u8 mask has bits
WideProtocols == [ i \in 1..WideLen |-> Proto(0, 60000, 30000, 400, PROTO_AAVE) ]

\* The two-protocol scenario S2 of the specification, amounts in thousands:
\* totalAssets = 1e6, pools of 1e7 and 2e6 half borrowed, stepPct = 10 and the
\* configuration defaults maxPoolShare = 0.20, minAllocation = 1000.
S2Protocols ==
    << Proto(0, 10000, 5000, 400, PROTO_AAVE), Proto(0, 2000, 1000, 300, PROTO_SPARK) >>

S2Input ==
    /\ total_assets = 1000
    /\ protocols = S2Protocols
    /\ blocked_mask = 0
    /\ config = [step_pct |-> 10, max_pool_share |-> 20, min_allocation |-> 1]
    /\ irm_params = None
    /\ overflow_checks = FALSE

DrawnInputs ==
    /\ total_assets \in TotalAssetsSet
    /\ protocols \in ProtoSeqs \cup {WideProtocols}
    /\ blocked_mask \in BlockedMasks
    /\ config \in [step_pct : StepPcts, max_pool_share : MaxPoolShares,
                   min_allocation : MinAllocations]
    \* the wide input is run on the coarsest grid only
    /\ Len(protocols) > MaxProtocols => config.step_pct = 50
    /\ irm_params \in {None, Some([i \in 1..Len(protocols) |-> SnapshotIRM])}
    \* the build's overflow checks only matter where an overflow can happen
    /\ overflow_checks \in
         IF \/ total_assets > 0 /\ \E i \in 1..Len(protocols) : CapOverflows(protocols[i], config)
            \/ \E i \in 1..Len(protocols) : ShiftOverflows(i - 1)
         THEN BOOLEAN ELSE {FALSE}

InitOptInputs == DrawnInputs \/ S2Input

InitOptLocals ==
    /\ o_pc = "start" /\ weights = <<>> /\ idx = 0 /\ best_return = NEG_INFINITY
    /\ best_allocations = None /\ best_apys = None /\ valid_count = 0 /\ result = NoResult
    /\ opt_run = 1 /\ prev_result = NoResult

\* the inputs on which a run is repeated
RerunInputs ==
    /\ total_assets \in {0, 12000}
    /\ blocked_mask \in {0, 1}
    /\ config.step_pct \in {25, 50}
    /\ config.min_allocation \in {0, 10000}
    /\ irm_params = None

\* mutant: the second run is given other total assets
OptRerun_other_input ==
    /\ o_pc = "done" /\ opt_run = 1
    /\ opt_run' = 2 /\ prev_result' = result
    /\ o_pc' = "start" /\ weights' = <<>> /\ idx' = 0 /\ best_return' = NEG_INFINITY
    /\ best_allocations' = None /\ best_apys' = None /\ valid_count' = 0
    /\ result' = NoResult
    /\ total_assets' = 12000 - total_assets
    /\ UNCHANGED <<protocols, blocked_mask, config, irm_params, overflow_checks>>
    /\ UNCHANGED <<gridVars, rpcVars, runVars, calcVars>>

\* the module is run once more on the same input: a new instance, whose locals
\* start afresh; what the first run returned is kept for comparison
OptRerun ==
    /\ o_pc = "done" /\ opt_run = 1
    /\ opt_run' = 2 /\ prev_result' = result
    /\ o_pc' = "start" /\ weights' = <<>> /\ idx' = 0 /\ best_return' = NEG_INFINITY
    /\ best_allocations' = None /\ best_apys' = None /\ valid_count' = 0
    /\ result' = NoResult
    /\ UNCHANGED optInputs
    /\ UNCHANGED <<gridVars, rpcVars, runVars, calcVars>>

\* the module is run once more on an input that differs from the first only in
\* the is_blocked fields of its protocols, as a caller's JSON may set them
OptRerunFlagged ==
    /\ o_pc = "done" /\ opt_run = 1
    /\ opt_run' = 2 /\ prev_result' = result
    /\ o_pc' = "start" /\ weights' = <<>> /\ idx' = 0 /\ best_return' = NEG_INFINITY
    /\ best_allocations' = None /\ best_apys' = None /\ valid_count' = 0
    /\ result' = NoResult
    /\ \E flags \in [1..Len(protocols) -> BOOLEAN] :
          protocols' = [ i \in 1..Len(protocols) |->
                           [protocols[i] EXCEPT !.is_blocked = flags[i]] ]
    /\ UNCHANGED <<total_assets, blocked_mask, config, irm_params, overflow_checks>>
    /\ UNCHANGED <<gridVars, rpcVars, runVars, calcVars>>

(***************************************************************************)
(* Harness applying the two grid generators to drawn inputs                *)
(***************************************************************************)
\* every percentage; grids of more than two axes are kept to MaxGridSteps steps
GridStepPcts == 1..100
GridCapPcts == {0, 30, 50, 100}

GridIdle == g_pc = "idle" /\ g_n = 0 /\ g_step = 0 /\ g_caps = <<>> /\ g_out = <<>>

InitGridInputs ==
    /\ g_pc = "start"
    /\ g_n \in 1..MaxGridProtocols
    /\ g_step \in GridStepPcts
    /\ g_n <= 2 \/ NSteps(g_step) <= MaxGridSteps
    /\ g_caps = <<>>
    /\ g_out = <<>>

GridUnbounded ==
    /\ g_pc = "start"
    /\ g_out' = generate_weight_grid(g_n, g_step)
    /\ g_pc' = "unbounded"
    /\ UNCHANGED <<g_n, g_step, g_caps>>
    /\ GridFrame

GridBounded ==
    /\ g_pc = "start"
    /\ \E caps \in [1..g_n -> GridCapPcts] :
          /\ g_caps' = caps
          /\ g_out' = generate_bounded_weight_grid(g_n, g_step, caps)
    /\ g_pc' = "bounded"
    /\ UNCHANGED <<g_n, g_step>>
    /\ GridFrame

(***************************************************************************)
(* The file-drop RPC channel of common.rs: rpc_call in the guest, the two  *)
(* files of the work directory, and a host that serves one request at a    *)
(* time and writes one response per request it has observed.  Runs of the  *)
(* guest follow one another on the same work directory.                    *)
(***************************************************************************)
\* let poll_interval = Duration::from_millis(10)
PollIntervalMs == 10
\* let max_wait = Duration::from_secs(10), in milliseconds
MaxWaitMs == 10000
\* the most contract calls one run makes: the three of check_emergency_status
CallsPerRun == 3

\* A file of the work directory is None (absent) or Some(contents).
\* A request file holds the request of one call; fs::write creates the file and
\* then fills it, so the contents are complete only after its second step.
Request(id, complete) == [id |-> id, complete |-> complete]
RequestId(run, call) == (run - 1) * CallsPerRun + call

\* What a response file can hold, as far as rpc_call tells contents apart.
Content(readable, wellformed, object, error) ==
    [readable |-> readable, wellformed |-> wellformed, object |-> object, error |-> error]
ResponseContents ==
    { Content(TRUE,  TRUE,  TRUE,  "absent"),   \* {"result": ...}
      Content(TRUE,  TRUE,  TRUE,  "value"),    \* {"error": "..."}
      Content(TRUE,  TRUE,  TRUE,  "null"),     \* {"error": null, "result": ...}
      Content(TRUE,  TRUE,  FALSE, "absent"),   \* an array or a scalar
      Content(TRUE,  FALSE, FALSE, "absent"),   \* not JSON
      Content(FALSE, FALSE, FALSE, "absent") }  \* not UTF-8
Response(for, content) == [for |-> for, content |-> content]

\* Result<Value, String> of rpc_call
RpcOk(response) == [kind |-> "Ok", value |-> response.content, for |-> response.for]
RpcErr(message) == [kind |-> "Err", error |-> message]

\* fs::read_to_string(&response_path): fails unless the bytes are UTF-8
read_to_string(file) ==
    IF Unwrap(file).content.readable THEN Some(Unwrap(file)) ELSE None

\* serde_json::from_str(&response_str)
from_str(str) == IF str.content.wellformed THEN Some(str) ELSE None

\* mutant: a null error taken for no error
get_error_not_null(response) ==
    IF response.content.object /\ response.content.error = "value"
    THEN Some(response.content.error) ELSE None

\* response.get("error"): Some for an object that has the key, whatever its value
get_error(response) ==
    IF response.content.object /\ response.content.error # "absent"
    THEN Some(response.content.error) ELSE None

\* mutant: the bound of the poll loop included
LoopContinues_inclusive(e) == e <= MaxWaitMs

\* while elapsed < max_wait
LoopContinues(e) == e < MaxWaitMs

\* What the current call has done so far (history of the call, not program state):
\* whether it saw the response file, read it, and removed each file, and how many
\* polls of its loop found no response file.  The count lives with the loop: like
\* elapsed it is dropped when the loop is left on a response file, and it is kept
\* when the loop runs out.
FreshLog == [observed |-> FALSE, read |-> FALSE, rm_req |-> FALSE, rm_resp |-> FALSE,
             absent_polls |-> 0]

RpcIdle ==
    /\ request_file = None /\ response_file = None
    /\ host_pending = None /\ host_seen = 0
    /\ run_no = 0 /\ call_no = 0 /\ r_pc = "idle" /\ elapsed = 0
    /\ response_str = None /\ rpc_result = NoResult /\ r_log = FreshLog

\* fs::write(&request_path, &request_str), first step: the file is created
GuestWriteBegin ==
    /\ r_pc = "call"
    /\ request_file' = Some(Request(RequestId(run_no, call_no), FALSE))
    /\ response_str' = None
    /\ rpc_result' = NoResult
    /\ r_log' = FreshLog
    /\ r_pc' = "writing"
    /\ UNCHANGED <<response_file, hostVars, run_no, call_no, elapsed>>
    /\ RpcFrame

\* fs::write fails: Err("Failed to write request to ...")
GuestWriteFails ==
    /\ r_pc = "call"
    /\ response_str' = None
    /\ rpc_result' = RpcErr("Failed to write request")
    /\ r_log' = FreshLog
    /\ r_pc' = "returned"
    /\ UNCHANGED <<dirVars, hostVars, run_no, call_no, elapsed>>
    /\ RpcFrame

\* fs::write, second step: the contents are in place; elapsed = Duration::ZERO
GuestWriteEnd ==
    /\ r_pc = "writing"
    /\ request_file' = Some(Request(RequestId(run_no, call_no), TRUE))
    /\ elapsed' = 0
    /\ r_pc' = "poll"
    /\ UNCHANGED <<response_file, hostVars, run_no, call_no, response_str, rpc_result, r_log>>
    /\ RpcFrame

\* one iteration that finds no response file: sleep(poll_interval); elapsed += poll_interval
GuestPollAbsent ==
    /\ r_pc = "poll"
    /\ LoopContinues(elapsed)
    /\ response_file = None
    /\ elapsed' = elapsed + PollIntervalMs
    /\ r_log' = [r_log EXCEPT !.absent_polls = @ + 1]
    /\ UNCHANGED <<dirVars, hostVars, run_no, call_no, r_pc, response_str, rpc_result>>
    /\ RpcFrame

\* response_path.exists() and the file is read
GuestPollFound ==
    /\ r_pc = "poll"
    /\ LoopContinues(elapsed)
    /\ response_file # None
    /\ read_to_string(response_file) # None
    /\ response_str' = read_to_string(response_file)
    /\ r_log' = [r_log EXCEPT !.observed = TRUE, !.read = TRUE, !.absent_polls = 0]
    /\ elapsed' = 0
    /\ r_pc' = "rm_req"
    /\ UNCHANGED <<dirVars, hostVars, run_no, call_no, rpc_result>>
    /\ RpcFrame

\* response_path.exists() and read_to_string fails: "?" returns before the clean-up
GuestReadFails ==
    /\ r_pc = "poll"
    /\ LoopContinues(elapsed)
    /\ response_file # None
    /\ read_to_string(response_file) = None
    /\ rpc_result' = RpcErr("Failed to read response")
    /\ r_log' = [r_log EXCEPT !.observed = TRUE, !.absent_polls = 0]
    /\ elapsed' = 0
    /\ r_pc' = "returned"
    /\ UNCHANGED <<dirVars, hostVars, run_no, call_no, response_str>>
    /\ RpcFrame

\* let _ = fs::remove_file(&request_path)
GuestRemoveRequest ==
    /\ r_pc = "rm_req"
    /\ request_file' = None
    /\ r_log' = [r_log EXCEPT !.rm_req = TRUE]
    /\ r_pc' = "rm_resp"
    /\ UNCHANGED <<response_file, hostVars, run_no, call_no, elapsed, response_str, rpc_result>>
    /\ RpcFrame

\* let _ = fs::remove_file(&response_path)
GuestRemoveResponse ==
    /\ r_pc = "rm_resp"
    /\ response_file' = None
    /\ r_log' = [r_log EXCEPT !.rm_resp = TRUE]
    /\ r_pc' = "parse"
    /\ UNCHANGED <<request_file, hostVars, run_no, call_no, elapsed, response_str, rpc_result>>
    /\ RpcFrame

\* parse, check for an RPC error, return
GuestParse ==
    /\ r_pc = "parse"
    /\ LET response == from_str(Unwrap(response_str))
       IN  rpc_result' =
               IF response = None THEN RpcErr("Failed to parse RPC response")
               ELSE IF get_error(Unwrap(response)) # None THEN RpcErr("RPC error")
               ELSE RpcOk(Unwrap(response))
    /\ r_pc' = "returned"
    /\ UNCHANGED <<dirVars, hostVars, run_no, call_no, elapsed, response_str, r_log>>
    /\ RpcFrame

\* the loop ran out: the request file is removed, Err("RPC call timeout after 10s")
GuestTimeout ==
    /\ r_pc = "poll"
    /\ ~LoopContinues(elapsed)
    /\ request_file' = None
    /\ r_log' = [r_log EXCEPT !.rm_req = TRUE]
    /\ rpc_result' = RpcErr("RPC call timeout after 10s")
    /\ r_pc' = "returned"
    /\ UNCHANGED <<response_file, hostVars, run_no, call_no, elapsed, response_str>>
    /\ RpcFrame

\* the steps of rpc_call
GuestStep ==
    \/ GuestWriteBegin \/ GuestWriteFails \/ GuestWriteEnd
    \/ GuestPollAbsent \/ GuestPollFound \/ GuestReadFails
    \/ GuestRemoveRequest \/ GuestRemoveResponse \/ GuestParse \/ GuestTimeout

\* mutant: the next call made whatever the previous one returned
CallerNext_after_error ==
    /\ r_pc = "returned"
    /\ call_no < CallsPerRun
    /\ call_no' = call_no + 1
    /\ r_pc' = "call"
    /\ UNCHANGED <<dirVars, hostVars, run_no, elapsed, response_str, rpc_result, r_log>>
    /\ RpcFrame

\* check_emergency_status: the next contract call is made only after the previous
\* rpc_call returned Ok ("?" on the first two, nothing follows the third)
CallerNext ==
    /\ r_pc = "returned"
    /\ rpc_result.kind = "Ok"
    /\ call_no < CallsPerRun
    /\ call_no' = call_no + 1
    /\ r_pc' = "call"
    /\ UNCHANGED <<dirVars, hostVars, run_no, elapsed, response_str, rpc_result, r_log>>
    /\ RpcFrame

\* the run ends (after an error, or with its answer) and a later run makes its first call
NextRun ==
    /\ r_pc = "returned"
    /\ run_no < MaxRuns
    /\ run_no' = run_no + 1
    /\ call_no' = 1
    /\ r_pc' = "call"
    /\ UNCHANGED <<dirVars, hostVars, elapsed, response_str, rpc_result, r_log>>
    /\ RpcFrame

\* the host finds a request file it has not seen yet
HostObserve ==
    /\ request_file # None
    /\ host_pending = None
    /\ Unwrap(request_file).id > host_seen
    /\ host_pending' = request_file
    /\ host_seen' = Unwrap(request_file).id
    /\ UNCHANGED <<dirVars, guestVars>>
    /\ RpcFrame

\* the host writes the response to the request it is serving
HostRespond ==
    /\ host_pending # None
    /\ \E c \in ResponseContents :
          response_file' = Some(Response(Unwrap(host_pending).id, c))
    /\ host_pending' = None
    /\ UNCHANGED <<request_file, host_seen, guestVars>>
    /\ RpcFrame

(***************************************************************************)
(* Inputs of a run: the stdin line, the environment, the host's answers    *)
(***************************************************************************)
Entries == {"lib_run", "rebalance_rpc", "rebalance_legacy", "emergency"}

Actions == {"absent", "rebalance", "emergency-check", "emergency", "other"}

RunProtocols ==
    { <<>>,
      <<Proto(0, 12000, 6000, 300, PROTO_SPARK)>>,
      <<Proto(0, 60000, 30000, 400, PROTO_AAVE), Proto(6000, 24000, 20000, 800, PROTO_FLUID)>> }

\* what the optimizer is run on: the input's fields, or the transformed snapshot
RunData == [total_assets : {0, 12000}, protocols : RunProtocols, blocked_mask : {0}]

\* the config object of the input, absent or with stepPct 0, a divisor of 100, above 100
RunConfigs ==
    {None} \cup { Some(c) : c \in [step_pct : {0, 25, 200}, max_pool_share : {20, 100},
                                   min_allocation : {0}] }

\* an object that deserializes in every mode and carries nothing optional
PlainInput ==
    [line |-> "object", action |-> "absent", has_reader |-> FALSE, reader_args_ok |-> TRUE,
     legacy_ok |-> TRUE, emergency_ok |-> TRUE, config |-> None,
     data |-> [total_assets |-> 0, protocols |-> <<>>, blocked_mask |-> 0]]

RpcInputs ==
    { [PlainInput EXCEPT !.has_reader = TRUE, !.reader_args_ok = r, !.config = c] :
        r \in BOOLEAN, c \in RunConfigs }

LegacyInputs ==
    { [PlainInput EXCEPT !.legacy_ok = FALSE] }
    \cup { [PlainInput EXCEPT !.config = c, !.data = d] : c \in RunConfigs, d \in RunData }

\* a line of stdin: not JSON, missing (read as "{}"), or an object with any action
LibInputs ==
    { [PlainInput EXCEPT !.line = "malformed"],
      [PlainInput EXCEPT !.line = "empty", !.legacy_ok = FALSE] }
    \cup { [i EXCEPT !.action = a] : i \in RpcInputs \cup LegacyInputs, a \in Actions }

EmergencyInputs == { [PlainInput EXCEPT !.emergency_ok = b] : b \in BOOLEAN }

InputsOf(e) ==
    CASE e = "lib_run" -> LibInputs
      [] e = "rebalance_rpc" -> RpcInputs
      [] e = "rebalance_legacy" -> LegacyInputs
      [] e = "emergency" -> EmergencyInputs

\* where a run starts
EntryPc(e) ==
    CASE e = "lib_run" -> "start"
      [] e = "rebalance_rpc" -> "run_with_rpc"
      [] e = "rebalance_legacy" -> "run_legacy"
      [] e = "emergency" -> "emergency"

\* which variables are set, and whether the build checks integer overflow
Environments ==
    [work_dir : BOOLEAN, request_file : BOOLEAN, response_file : BOOLEAN,
     overflow_checks : BOOLEAN]

\* the decoded GuardStalenessInfo[] of a response
GuardsInfos ==
    UNION { [1..n -> [enabled : BOOLEAN, is_stale : BOOLEAN]] : n \in 0..MaxGuards }

\* the decoded status, u.as_u32() as u8
Statuses == {0, 1, 2, 255}

(***************************************************************************)
(* Runs of the guest: the entry point run() of lib.rs and the entry points *)
(* of the rebalance and emergency modules.  A message is the sequence of   *)
(* the parts format!() joins, an envelope the JSON line println!() writes. *)
(***************************************************************************)
Ok(value) == [kind |-> "Ok", value |-> value]
Err(error) == [kind |-> "Err", error |-> error]

\* an integer wider than the cast it goes through (U256::as_u64, U256::as_u32)
CastPanic == [kind |-> "Panic"]

\* common.rs output helpers
output_success(res) == [ok |-> TRUE, result |-> res]
output_skip(message) ==
    [ok |-> TRUE,
     result |-> [ok |-> TRUE, success |-> TRUE, skipRemainingSteps |-> TRUE,
                 message |-> message]]
output_error(error) ==
    [ok |-> FALSE, result |-> [ok |-> FALSE, success |-> FALSE, error |-> error]]

\* lib.rs prints its error envelopes inline, most of them with the error alone
lib_error(error) == [ok |-> FALSE, result |-> [error |-> error]]

\* mutant: the work directory defaults to the current directory
from_env_default_dir(e) ==
    Ok([work_dir |-> ".",
        request_file |-> IF e.request_file THEN "WASM_RPC_REQUEST_FILE"
                         ELSE "wasm_rpc_request.json",
        response_file |-> IF e.response_file THEN "WASM_RPC_RESPONSE_FILE"
                          ELSE "wasm_rpc_response.json"])

\* RpcConfig::from_env; e tells which variables are set, a set variable is
\* named by its value
from_env(e) ==
    IF ~e.work_dir
    THEN Err(<<"WASM_RPC_WORK_DIR not set">>)
    ELSE Ok([work_dir |-> "WASM_RPC_WORK_DIR",
             request_file |-> IF e.request_file THEN "WASM_RPC_REQUEST_FILE"
                              ELSE "wasm_rpc_request.json",
             response_file |-> IF e.response_file THEN "WASM_RPC_RESPONSE_FILE"
                               ELSE "wasm_rpc_response.json"])

\* the messages rpc_call fails with
RpcFailures ==
    { <<"Failed to write request">>,
      <<"Failed to read response">>,
      <<"Failed to parse RPC response">>,
      <<"RPC error">>,
      <<"RPC call timeout after 10s">> }

\* the messages the decoding of a response fails with
DecodeFailures(function) ==
    { <<"No result in ", function, " response">>, <<"Failed to decode hex">> }

CallFailures(function) ==
    { Err(e) : e \in RpcFailures \cup DecodeFailures(function) }

\* how optimize ends: "panic" (division by zero for step_pct = 0, n_protocols - 1
\* on an empty protocol list, or an overflow of the cap derivation), "err" (empty
\* grid) or "ok"; for at most 8 protocols, where the filter's shift cannot overflow
optimize_outcome(total, protos, mask, cfg, checks) ==
    IF cfg.step_pct = 0 \/ Len(protos) = 0 THEN "panic"
    ELSE IF total > 0 /\ CapsPanic(protos, cfg, checks) THEN "panic"
    ELSE IF Len(GridFor(total, protos, mask, cfg)) = 0 THEN "err"
    ELSE "ok"

\* the result object of a successful optimization; its fields are C1..C4's subject
OptimizationEnvelope == output_success([ok |-> TRUE, success |-> TRUE, kind |-> "optimization"])

RunIdle ==
    /\ entry = "idle" /\ m_pc = "idle"
    /\ input = None /\ env = None /\ rpc_config = None /\ optimizer_input = None
    /\ rpc_calls = <<>> /\ stdout = <<>>

\* the variant of run_with_rpc and run_legacy a run goes through
InLib == entry = "lib_run"

Emit(envelope) == stdout' = Append(stdout, envelope)

\* lib.rs run(): read a line, parse it, dispatch on the presence of vaultDataReader
LibRun ==
    /\ entry = "lib_run" /\ m_pc = "start"
    /\ IF input.line = "malformed"
       THEN /\ Emit(lib_error(<<"Invalid input: ", "serde_json error">>))
            /\ m_pc' = "exited"
       ELSE /\ m_pc' = IF input.has_reader THEN "run_with_rpc" ELSE "run_legacy"
            /\ UNCHANGED stdout
    /\ UNCHANGED <<entry, input, env, rpc_config, optimizer_input, rpc_calls>>
    /\ RunFrame

\* config of a run: the input's, with the defaults of lines 58-60
ConfigOf(inp) ==
    IF inp.config = None
    THEN [step_pct |-> 1, max_pool_share |-> 20, min_allocation |-> 1000]
    ELSE Unwrap(inp.config)

\* run_legacy up to the call of optimize
RunLegacy ==
    /\ m_pc = "run_legacy"
    /\ IF ~input.legacy_ok
       THEN /\ Emit(output_error(<<"Invalid input JSON: ", "serde_json error">>))
            /\ m_pc' = "exited"
            /\ UNCHANGED optimizer_input
       ELSE /\ optimizer_input' = Some(input.data)
            /\ m_pc' = "optimize"
            /\ UNCHANGED stdout
    /\ UNCHANGED <<entry, input, env, rpc_config, rpc_calls>>
    /\ RunFrame

\* run_with_rpc up to the call of get_snapshot
RunWithRpc ==
    /\ m_pc = "run_with_rpc"
    /\ LET c == from_env(env)
       IN  IF c.kind = "Err"
           THEN /\ Emit(IF InLib THEN lib_error(c.error) ELSE output_error(c.error))
                /\ m_pc' = "exited"
                /\ UNCHANGED rpc_config
           ELSE /\ rpc_config' = Some(c.value)
                /\ m_pc' = "get_snapshot"
                /\ UNCHANGED stdout
    /\ UNCHANGED <<entry, input, env, optimizer_input, rpc_calls>>
    /\ RunFrame

\* what a snapshot failure is reported as
SnapshotError(e) ==
    IF InLib THEN lib_error(e) ELSE output_error(<<"Failed to fetch snapshot: ">> \o e)

\* get_snapshot fails before the call on an address that does not parse
GetSnapshotEncodeFails ==
    /\ m_pc = "get_snapshot"
    /\ ~input.reader_args_ok
    /\ Emit(SnapshotError(<<"Invalid vault address">>))
    /\ m_pc' = "exited"
    /\ UNCHANGED <<entry, input, env, rpc_config, optimizer_input, rpc_calls>>
    /\ RunFrame

\* get_snapshot: rpc_call, decoding, transform_snapshot_to_input
GetSnapshot ==
    /\ m_pc = "get_snapshot"
    /\ input.reader_args_ok
    /\ \E outcome \in CallFailures("getSnapshot") \cup { Ok(d) : d \in RunData } :
        /\ rpc_calls' = Append(rpc_calls, [function |-> "getSnapshot", outcome |-> outcome])
        /\ IF outcome.kind = "Err"
           THEN /\ Emit(SnapshotError(outcome.error))
                /\ m_pc' = "exited"
                /\ UNCHANGED optimizer_input
           ELSE /\ optimizer_input' = Some(outcome.value)
                /\ m_pc' = "optimize"
                /\ UNCHANGED stdout
    /\ UNCHANGED <<entry, input, env, rpc_config>>
    /\ RunFrame

\* what an optimizer failure is reported as
OptimizeError(e) ==
    IF ~InLib THEN output_error(<<"Optimization failed: ">> \o e)
    ELSE IF rpc_config # None THEN lib_error(e)
    ELSE output_error(e)

\* the call of optimize and the output of its result, in both modes
RunOptimize ==
    /\ m_pc = "optimize"
    /\ LET d == Unwrap(optimizer_input)
           outcome == optimize_outcome(d.total_assets, d.protocols, d.blocked_mask,
                                       ConfigOf(input), env.overflow_checks)
       IN  CASE outcome = "panic" -> m_pc' = "aborted" /\ UNCHANGED stdout
             [] outcome = "err" ->
                    /\ Emit(OptimizeError(<<"No valid weight combinations generated">>))
                    /\ m_pc' = "exited"
             [] outcome = "ok" -> Emit(OptimizationEnvelope) /\ m_pc' = "exited"
    /\ UNCHANGED <<entry, input, env, rpc_config, optimizer_input, rpc_calls>>
    /\ RunFrame

\* emergency::run up to the call of check_emergency_status
EmergencyRun ==
    /\ m_pc = "emergency"
    /\ LET c == from_env(env)
       IN  IF ~input.emergency_ok
           THEN /\ Emit(output_error(<<"Invalid input JSON: ", "serde_json error">>))
                /\ m_pc' = "exited"
                /\ UNCHANGED rpc_config
           ELSE IF c.kind = "Err"
           THEN /\ Emit(output_error(c.error))
                /\ m_pc' = "exited"
                /\ UNCHANGED rpc_config
           ELSE /\ rpc_config' = Some(c.value)
                /\ m_pc' = "is_emergency_mode"
                /\ UNCHANGED stdout
    /\ UNCHANGED <<entry, input, env, optimizer_input, rpc_calls>>
    /\ RunFrame

\* what run prints for the value check_emergency_status returns
EmergencyOutput(r) ==
    IF r.kind = "Err"
    THEN output_error(<<"Failed to check emergency status: ">> \o r.error)
    ELSE IF r.value.should_activate
    THEN output_success([ok |-> TRUE, success |-> TRUE,
                         shouldActivate |-> r.value.should_activate,
                         aggregatedStatus |-> r.value.aggregated_status,
                         isEmergencyMode |-> r.value.is_emergency_mode,
                         dataFresh |-> r.value.data_fresh,
                         message |-> r.value.message])
    ELSE output_skip(r.value.message)

EmergencyResult(activate, status, in_emergency, fresh, message) ==
    [should_activate |-> activate, aggregated_status |-> status,
     is_emergency_mode |-> in_emergency, data_fresh |-> fresh, message |-> message]

Call(function, outcome) ==
    rpc_calls' = Append(rpc_calls, [function |-> function, outcome |-> outcome])

\* check_emergency_status returns r: run prints and returns
Return(r) == Emit(EmergencyOutput(r)) /\ m_pc' = "exited"

\* 1. is_emergency_mode
IsEmergencyMode ==
    /\ m_pc = "is_emergency_mode"
    /\ \E outcome \in CallFailures("isEmergencyMode") \cup { Ok(b) : b \in BOOLEAN } :
        /\ Call("isEmergencyMode", outcome)
        /\ IF outcome.kind = "Err"
           THEN Return(outcome)
           ELSE IF outcome.value
           THEN Return(Ok(EmergencyResult(FALSE, 2, TRUE, TRUE,
                                          <<"Already in emergency mode">>)))
           ELSE m_pc' = "get_guards_staleness" /\ UNCHANGED stdout
    /\ UNCHANGED <<entry, input, env, rpc_config, optimizer_input>>
    /\ RunFrame

\* mutant: no guard is ever taken as stale
StaleGuards_none(guards_info) == {}

\* mutant: a stale guard counts whether or not it is enabled
StaleGuards_any(guards_info) == { i \in DOMAIN guards_info : guards_info[i].is_stale }

\* guards_info.iter().filter(|g| g.enabled && g.is_stale)
StaleGuards(guards_info) ==
    { i \in DOMAIN guards_info : guards_info[i].enabled /\ guards_info[i].is_stale }

EnabledGuards(guards_info) == { i \in DOMAIN guards_info : guards_info[i].enabled }

\* 2. get_guards_staleness
GetGuardsStaleness ==
    /\ m_pc = "get_guards_staleness"
    /\ \E outcome \in CallFailures("getGuardsStaleness") \cup {CastPanic}
                         \cup { Ok(g) : g \in GuardsInfos } :
        /\ Call("getGuardsStaleness", outcome)
        /\ CASE outcome.kind = "Panic" -> m_pc' = "aborted" /\ UNCHANGED stdout
             [] outcome.kind = "Err" -> Return(outcome)
             [] outcome.kind = "Ok" ->
                    IF StaleGuards(outcome.value) # {}
                    THEN Return(Ok(EmergencyResult(FALSE, 0, FALSE, FALSE,
                             <<ToString(Cardinality(StaleGuards(outcome.value))), "/",
                               ToString(Cardinality(EnabledGuards(outcome.value))),
                               " guards are stale. Run guard-updates workflow first.">>)))
                    ELSE m_pc' = "get_aggregated_status" /\ UNCHANGED stdout
    /\ UNCHANGED <<entry, input, env, rpc_config, optimizer_input>>
    /\ RunFrame

\* mutant: a failure of the third call is propagated like the first two
StatusFailure_propagated(e) == Err(e)

\* Err(e) => return Ok(EmergencyResult { should_activate: false, .. })
StatusFailure(e) ==
    Ok(EmergencyResult(FALSE, 0, FALSE, TRUE, <<"Failed to get guard status: ">> \o e))

\* 3. get_aggregated_status and 4. the decision on the status
GetAggregatedStatus ==
    /\ m_pc = "get_aggregated_status"
    /\ \E outcome \in CallFailures("getAggregatedStatus") \cup {CastPanic}
                         \cup { Ok(s) : s \in Statuses } :
        /\ Call("getAggregatedStatus", outcome)
        /\ CASE outcome.kind = "Panic" -> m_pc' = "aborted" /\ UNCHANGED stdout
             [] outcome.kind = "Err" -> Return(StatusFailure(outcome.error))
             [] outcome.kind = "Ok" ->
                    IF outcome.value = GUARD_STATUS_NORMAL
                    THEN Return(Ok(EmergencyResult(FALSE, outcome.value, FALSE, TRUE,
                                     <<"All guards normal, no action needed">>)))
                    ELSE Return(Ok(EmergencyResult(TRUE, outcome.value, FALSE, TRUE,
                                     <<"Guard(s) triggered (status=", ToString(outcome.value),
                                       "), activating emergency mode">>)))
    /\ UNCHANGED <<entry, input, env, rpc_config, optimizer_input>>
    /\ RunFrame

(***************************************************************************)
(* Harness applying pure functions of rebalance/mod.rs to drawn inputs:    *)
(* the hex formatting of a result, calc_dilution_time_delta and            *)
(* calc_supply_apy                                                         *)
(***************************************************************************)
\* An f64 as far as its cast to u128 depends on it: NaN or not, the sign, the hex
\* digits of the integer part (most significant first, none when below 1; more
\* than 32 digits when above u128::MAX, infinities included) and whether a
\* fraction follows.
F64(nan, negative, int_digits, fraction) ==
    [nan |-> nan, negative |-> negative, int_digits |-> int_digits, fraction |-> fraction]

U128Digits == 32

\* "a as u128": NaN and negatives give 0, the fraction is dropped, values above
\* u128::MAX saturate; the result as hex digits without leading zeros (none for 0)
as_u128(x) ==
    IF x.nan \/ x.negative THEN <<>>
    ELSE IF Len(x.int_digits) > U128Digits THEN [ i \in 1..U128Digits |-> 15 ]
    ELSE x.int_digits

HexChars == <<"0", "1", "2", "3", "4", "5", "6", "7", "8", "9", "a", "b", "c", "d", "e", "f">>

\* "{:x}" of a u128
LowerHex(v) == IF v = <<>> THEN <<"0">> ELSE [ i \in 1..Len(v) |-> HexChars[v[i] + 1] ]

\* the width of "{:064x}": zeros in front up to the width, never a truncation
PadZero(s, width) ==
    IF Len(s) >= width THEN s ELSE [ i \in 1..(width - Len(s)) |-> "0" ] \o s

HexWidth == 64

\* mutant: the format without the width
format_hex_unpadded(v) == <<"0", "x">> \o LowerHex(v)

\* format!("0x{:064x}", v)
format_hex(v) == <<"0", "x">> \o PadZero(LowerHex(v), HexWidth)

FALLBACK == 604800
MIN_DELTA == 3600
MAX_DELTA == 2592000

\* stands for what a u64 subtraction below zero would give: a panic or a wrapped
\* value
U64Underflow == -1

\* mutant: the difference is returned as it is
calc_dilution_time_delta_unclamped(last_update, snapshot_timestamp) ==
    IF snapshot_timestamp = 0 THEN FALLBACK
    ELSE IF last_update = 0 \/ last_update >= snapshot_timestamp THEN FALLBACK
    ELSE snapshot_timestamp - last_update

calc_dilution_time_delta(last_update, snapshot_timestamp) ==
    IF snapshot_timestamp = 0 THEN FALLBACK
    ELSE IF last_update = 0 \/ last_update >= snapshot_timestamp THEN FALLBACK
    ELSE LET time_delta == snapshot_timestamp - last_update
         IN  IF time_delta < 0 THEN U64Underflow
             ELSE IF time_delta < MIN_DELTA THEN MIN_DELTA
             ELSE IF time_delta > MAX_DELTA THEN MAX_DELTA
             ELSE time_delta

\* the hex digit sequences drawn: every length, smallest and largest leading digit,
\* all-zero and all-f tails
DigitSeqs ==
    {<<>>} \cup { [ i \in 1..n |-> IF i = 1 THEN lead ELSE fill ] :
                    n \in 1..MaxHexDigits, lead \in {1, 15}, fill \in {0, 15} }

F64Values ==
    { F64(TRUE, FALSE, <<>>, FALSE) }
    \cup { F64(FALSE, s, d, f) : s \in BOOLEAN, d \in DigitSeqs, f \in BOOLEAN }

\* u64 timestamps around the branch points of calc_dilution_time_delta
Timestamps ==
    {0, 1, 3599, 3600, 3601, 604800, 604801, 2592000, 2592001,
     1700000000, 1700003600, 1702592001}

Deltas == {-6000, -3000, 0, 3000, 6000, 12000}

CalcFunctions == {"allocations_hex", "weights_wad", "calc_dilution_time_delta", "calc_supply_apy"}

CalcInputs(f) ==
    CASE f = "allocations_hex" -> [branch : {"best", "current"}, a : F64Values]
      [] f = "weights_wad" -> [branch : {"best", "current"}, scaled : F64Values]
      [] f = "calc_dilution_time_delta" ->
             [last_update : Timestamps, snapshot_timestamp : Timestamps]
      [] f = "calc_supply_apy" -> [protocol : ProtoSet, delta1 : Deltas, delta2 : Deltas]

CalcIdle == c_pc = "idle" /\ c_fn = "none" /\ c_in = None /\ c_out = None

InitCalcInputs ==
    /\ c_fn \in CalcFunctions
    /\ c_in \in CalcInputs(c_fn)
    /\ c_pc = "ready"
    /\ c_out = None

\* allocations.iter().map(|&a| format!("0x{:064x}", (a as u128).min(u128::MAX)))
CalcAllocationsHex ==
    /\ c_pc = "ready" /\ c_fn = "allocations_hex"
    /\ c_out' = format_hex(as_u128(c_in.a))
    /\ c_pc' = "done"
    /\ UNCHANGED <<c_fn, c_in>>
    /\ CalcFrame

\* weights.iter().map(|&w| format!("0x{:064x}", (w * WAD_F64) as u128)); the
\* product w * WAD_F64 is the f64 drawn
CalcWeightsWad ==
    /\ c_pc = "ready" /\ c_fn = "weights_wad"
    /\ c_out' = format_hex(as_u128(c_in.scaled))
    /\ c_pc' = "done"
    /\ UNCHANGED <<c_fn, c_in>>
    /\ CalcFrame

CalcDilutionTimeDelta ==
    /\ c_pc = "ready" /\ c_fn = "calc_dilution_time_delta"
    /\ c_out' = Some(calc_dilution_time_delta(c_in.last_update, c_in.snapshot_timestamp))
    /\ c_pc' = "done"
    /\ UNCHANGED <<c_fn, c_in>>
    /\ CalcFrame

CalcSupplyApy ==
    /\ c_pc = "ready" /\ c_fn = "calc_supply_apy"
    /\ c_out' = <<calc_supply_apy(c_in.protocol, c_in.delta1),
                  calc_supply_apy(c_in.protocol, c_in.delta2)>>
    /\ c_pc' = "done"
    /\ UNCHANGED <<c_fn, c_in>>
    /\ CalcFrame

(***************************************************************************)
(* Specifications                                                          *)
(***************************************************************************)
InitGrid == InitGridInputs /\ OptIdle /\ RpcIdle /\ RunIdle /\ CalcIdle
NextGrid == GridUnbounded \/ GridBounded
SpecGrid == InitGrid /\ [][NextGrid]_vars

InitOpt == InitOptInputs /\ InitOptLocals /\ GridIdle /\ RpcIdle /\ RunIdle /\ CalcIdle
NextOpt ==
    \/ OptGenerate
    \/ OptPanic
    \/ OptNoScenarios
    \/ OptBeginEval
    \/ OptEvaluate
    \/ OptReturnBest
    \/ OptReturnCurrent
SpecOpt == InitOpt /\ [][NextOpt]_vars

\* two runs of the optimizer on the same input
InitRerun == InitOpt /\ RerunInputs
NextRerun ==
    \/ OptGenerate
    \/ OptPanic
    \/ OptNoScenarios
    \/ OptBeginEval
    \/ OptEvaluate
    \/ OptReturnBest
    \/ OptReturnCurrent
    \/ OptRerun
SpecRerun == InitRerun /\ [][NextRerun]_vars

\* two runs of the optimizer on inputs that differ in the is_blocked fields
InitFlagged == InitOpt /\ RerunInputs /\ Len(protocols) <= MaxProtocols
NextFlagged ==
    \/ OptGenerate
    \/ OptPanic
    \/ OptNoScenarios
    \/ OptBeginEval
    \/ OptEvaluate
    \/ OptReturnBest
    \/ OptReturnCurrent
    \/ OptRerunFlagged
SpecFlagged == InitFlagged /\ [][NextFlagged]_vars

\* the first call of the first run, on an empty work directory
InitRpc ==
    /\ request_file = None /\ response_file = None
    /\ host_pending = None /\ host_seen = 0
    /\ run_no = 1 /\ call_no = 1 /\ r_pc = "call" /\ elapsed = 0
    /\ response_str = None /\ rpc_result = NoResult /\ r_log = FreshLog
    /\ GridIdle /\ OptIdle /\ RunIdle /\ CalcIdle
NextRpc ==
    \/ GuestWriteBegin
    \/ GuestWriteFails
    \/ GuestWriteEnd
    \/ GuestPollAbsent
    \/ GuestPollFound
    \/ GuestReadFails
    \/ GuestRemoveRequest
    \/ GuestRemoveResponse
    \/ GuestParse
    \/ GuestTimeout
    \/ CallerNext
    \/ NextRun
    \/ HostObserve
    \/ HostRespond
SpecRpc == InitRpc /\ [][NextRpc]_vars

\* the guest process is scheduled: a step of rpc_call that can be taken is taken
SpecRpcFair == SpecRpc /\ WF_vars(GuestStep)

\* a run of the guest from one of its entry points
InitEntry ==
    /\ entry \in Entries
    /\ input \in InputsOf(entry)
    /\ env \in Environments
    /\ m_pc = EntryPc(entry)
    /\ rpc_config = None /\ optimizer_input = None
    /\ rpc_calls = <<>> /\ stdout = <<>>
    /\ GridIdle /\ OptIdle /\ RpcIdle /\ CalcIdle
NextEntry ==
    \/ LibRun
    \/ RunLegacy
    \/ RunWithRpc
    \/ GetSnapshotEncodeFails
    \/ GetSnapshot
    \/ RunOptimize
    \/ EmergencyRun
    \/ IsEmergencyMode
    \/ GetGuardsStaleness
    \/ GetAggregatedStatus
SpecEntry == InitEntry /\ [][NextEntry]_vars

\* the pure functions applied to drawn inputs
InitCalc == InitCalcInputs /\ GridIdle /\ OptIdle /\ RpcIdle /\ RunIdle
NextCalc ==
    \/ CalcAllocationsHex
    \/ CalcWeightsWad
    \/ CalcDilutionTimeDelta
    \/ CalcSupplyApy
SpecCalc == InitCalc /\ [][NextCalc]_vars

(***************************************************************************)
(* Properties of the optimizer                                             *)
(***************************************************************************)
Done == o_pc = "done"
Succeeded == Done /\ result.kind = "ok"
N == Len(protocols)

\* bit i (0-based) of the 8-bit mask
MaskBit(mask, i) == i < 8 /\ (mask \div (2 ^ i)) % 2 = 1

\* the generated candidates that pass the validity filter
ValidCandidates ==
    { k \in 1..Len(weights) :
        is_valid_allocation(Materialize(weights[k], total_assets, config.step_pct), protocols,
            blocked_mask, config.max_pool_share, config.min_allocation, overflow_checks)
        = "valid" }

CandidateReturn(k) ==
    LET a == Materialize(weights[k], total_assets, config.step_pct)
    IN  Return12h(a, ApysOf(a, protocols, irm_params))

\* The three constraints as the data model states them, for allocation a of protocol i.
PoolShareCap(a, i) ==
    a * 100 <= (protocols[i].pool_supply + a - protocols[i].our_balance) * config.max_pool_share
BlockedRule(a, i) == MaskBit(blocked_mask, i - 1) => a <= protocols[i].our_balance
MinAllocationRule(a) == a = 0 \/ a >= config.min_allocation

\* C1 as claimed: every success result, of the best-candidate branch or of the
\* current-allocation fallback, satisfies the pool-share cap, the blocked rule and the
\* min-allocation rule for every protocol.
C1_AllResultsSatisfyConstraints ==
    Succeeded =>
        \A i \in 1..N :
            LET a == result.allocations_decimal[i]
            IN  PoolShareCap(a, i) /\ BlockedRule(a, i) /\ MinAllocationRule(a)

\* C1 as amended: a result of the best-candidate branch gives no blocked protocol more
\* than it holds, keeps every allocation within the pool-share cap whenever the
\* post-delta pool supply is positive, and has no positive allocation below
\* min_allocation.  (The fallback returns the current balances unchecked.)
C1_BestResultPassesFilter ==
    (Succeeded /\ result.branch = "best") =>
        \A i \in 1..N :
            LET a == result.allocations_decimal[i]
                new_supply == protocols[i].pool_supply + a - protocols[i].our_balance
            IN  /\ BlockedRule(a, i)
                /\ new_supply > 0 => a * 100 <= new_supply * config.max_pool_share
                /\ a > 0 => a >= config.min_allocation

\* C1 witness: a best-candidate result returned after the filter rejected candidates,
\* with a blocked protocol and a dust floor in force.
C1_Witness ==
    /\ Succeeded /\ result.branch = "best"
    /\ valid_count < Len(weights)
    /\ blocked_mask # 0 /\ config.min_allocation > 0
    /\ \E i \in 1..N : result.allocations_decimal[i] > 0

\* C2: with at most 8 protocols, no success result (either branch) gives a protocol
\* whose mask bit is set more than its current balance.
C2_BlockedNeverIncreased ==
    (Succeeded /\ N <= 8) =>
        \A i \in 1..N :
            MaskBit(blocked_mask, i - 1)
                => result.allocations_decimal[i] <= protocols[i].our_balance

\* C2 witness: a best-candidate result for a positive total with a blocked protocol
\* that holds a balance, and another protocol taking the rest.
C2_Witness ==
    /\ Succeeded /\ N <= 8 /\ result.branch = "best" /\ total_assets > 0
    /\ \E i \in 1..N :
          /\ MaskBit(blocked_mask, i - 1)
          /\ protocols[i].our_balance > 0
          /\ result.allocations_decimal[i] <= protocols[i].our_balance
    /\ \E j \in 1..N : ~MaskBit(blocked_mask, j - 1) /\ result.allocations_decimal[j] > 0

\* C3: when some generated candidate is valid, the returned expected_return_12h is the
\* maximum of the score over the valid candidates, and the returned allocations and
\* apys are those of a valid candidate attaining it.
C3_ArgmaxOptimal ==
    (Done /\ ValidCandidates # {}) =>
        /\ result.kind = "ok"
        /\ \A k \in ValidCandidates : CandidateReturn(k) <= result.expected_return_12h
        /\ \E k \in ValidCandidates :
              LET a == Materialize(weights[k], total_assets, config.step_pct)
              IN  /\ CandidateReturn(k) = result.expected_return_12h
                  /\ result.allocations_decimal = a
                  /\ result.apys = ApysOf(a, protocols, irm_params)

\* C3 witness: a finished run in which valid candidates had different scores and the
\* first valid one was not the best.
C3_Witness ==
    /\ Done /\ result.kind = "ok"
    /\ \E k, l \in ValidCandidates :
          /\ k < l
          /\ \A m \in ValidCandidates : k <= m
          /\ CandidateReturn(k) < CandidateReturn(l)

\* C4 as claimed: whenever no candidate is valid, also when the grid is empty,
\* optimize returns the current allocation as a success: the balances, return 0, the
\* current APYs and the number of generated candidates.
C4_NoValidCandidateStillSucceeds ==
    (Done /\ ValidCandidates = {}) =>
        /\ result.kind = "ok"
        /\ result.allocations_decimal = [ i \in 1..N |-> protocols[i].our_balance ]
        /\ result.expected_return_12h = 0
        /\ result.apys = [ i \in 1..N |-> protocols[i].current_apy ]
        /\ result.scenarios_evaluated = Len(weights)

(***************************************************************************)
(* Properties of the grid generators                                       *)
(***************************************************************************)
GridDone == g_pc \in {"unbounded", "bounded"}

\* the integer step a weight stands for, or -1 when it is no multiple of the grid step
StepOf(w) ==
    LET unit == IF g_pc = "unbounded" THEN UnboundedWeight(1, g_step)
                ELSE BoundedWeight(1, g_step)
    IN  IF w % unit = 0 THEN w \div unit ELSE -1

\* C5 as claimed: every candidate of either generator has integer steps summing to
\* S = 100 / step_pct and weights summing to 1.
C5_CandidatesSumToOne ==
    GridDone =>
        \A k \in 1..Len(g_out) :
            /\ \A i \in 1..g_n : StepOf(g_out[k][i]) >= 0
            /\ SumSeq([ i \in 1..g_n |-> StepOf(g_out[k][i]) ]) = NSteps(g_step)
            /\ SumSeq(g_out[k]) = WeightOne(g_step)

RECURSIVE Binomial(_, _)
Binomial(n, k) ==
    IF k < 0 \/ k > n THEN 0
    ELSE IF k = 0 THEN 1
    ELSE (Binomial(n - 1, k - 1) * n) \div k

\* the non-negative integer vectors of length n with sum S
Compositions(n, S) == { v \in [1..n -> 0..S] : SumSeq(v) = S }

\* C6: generate_weight_grid emits C(S + n - 1, n - 1) candidates, and every
\* non-negative integer vector of length n with sum S exactly once.
C6_UnboundedGridIsComplete ==
    g_pc = "unbounded" =>
        LET S == NSteps(g_step)
            emitted == { [ i \in 1..g_n |-> StepOf(g_out[k][i]) ] : k \in 1..Len(g_out) }
        IN  /\ Len(g_out) = Binomial(S + g_n - 1, g_n - 1)
            /\ emitted = Compositions(g_n, S)
            /\ Cardinality(emitted) = Len(g_out)

\* C6 witness: an unbounded grid over three axes with more than one step.
C6_Witness ==
    g_pc = "unbounded" /\ g_n = 3 /\ NSteps(g_step) >= 10 /\ Len(g_out) > 10

(***************************************************************************)
(* Properties of the RPC channel                                           *)
(***************************************************************************)
Returned == r_pc = "returned"
TimeoutError == RpcErr("RPC call timeout after 10s")
RpcError == RpcErr("RPC error")
CleanedUp == r_log.rm_req /\ r_log.rm_resp

\* C7: within one run, a call writes its request only after the previous call returned
\* Ok having read a response and removed the request file and the response file, and
\* the previous request file is gone; in a run that started on an empty work
\* directory the host is serving no request and no response file exists at that
\* moment, and whatever the host serves or has answered belongs to the current call.
C7_OneRequestInFlight ==
    /\ (r_pc = "call" /\ call_no > 1) =>
          /\ rpc_result.kind = "Ok"
          /\ r_log.read /\ CleanedUp
          /\ request_file = None
          /\ run_no = 1 => (response_file = None /\ host_pending = None)
    /\ (run_no = 1 /\ host_pending # None) =>
          Unwrap(host_pending).id = RequestId(run_no, call_no)
    /\ (run_no = 1 /\ response_file # None) =>
          Unwrap(response_file).for = RequestId(run_no, call_no)

\* C7 witness: the third call of a run is about to write its request, two complete
\* exchanges behind it.
C7_Witness ==
    /\ r_pc = "call" /\ call_no = CallsPerRun
    /\ host_seen = RequestId(run_no, call_no) - 1
    /\ r_log.read /\ CleanedUp

\* C8: rpc_call terminates; its loop polls at most 1000 times, 10 ms apart; it returns
\* the timeout error only after 1000 polls that all found no response file, with the
\* request file removed; and a loop whose polls all found nothing ends in that error.
C8_PollLoopTerminates ==
    /\ [](r_pc = "poll" =>
            /\ r_log.absent_polls <= 1000
            /\ elapsed = r_log.absent_polls * 10)
    /\ []((Returned /\ rpc_result = TimeoutError) =>
            /\ r_log.absent_polls = 1000
            /\ ~r_log.observed
            /\ request_file = None)
    /\ []((Returned /\ r_log.absent_polls = 1000) => rpc_result = TimeoutError)
    /\ ((r_pc \in {"writing", "poll", "rm_req", "rm_resp", "parse"}) ~> Returned)

\* C8 witness: a call returned the timeout error after its 1000 polls, while the host
\* was serving its request.
C8_Witness ==
    /\ Returned /\ rpc_result = TimeoutError
    /\ r_log.absent_polls = 1000
    /\ host_pending # None /\ Unwrap(host_pending).id = RequestId(run_no, call_no)

\* C9 as claimed: on every return of rpc_call after the response file was seen to
\* exist (success, read failure, parse failure, RPC error) both removals have been
\* carried out.
C9_FilesRemovedOnEveryPath ==
    (Returned /\ r_log.observed) => CleanedUp

\* C10: rpc_call returns the RPC error exactly when the response it read parses to an
\* object with a top-level error field; every well-formed response without such a
\* field is returned as the success value; and either outcome comes only after the
\* response was read and both files were removed.
C10_RpcErrorIffErrorField ==
    Returned =>
        /\ rpc_result = RpcError <=>
              /\ r_log.read
              /\ Unwrap(response_str).content.wellformed
              /\ Unwrap(response_str).content.object
              /\ Unwrap(response_str).content.error # "absent"
        /\ ( /\ r_log.read
             /\ Unwrap(response_str).content.wellformed
             /\ ~( /\ Unwrap(response_str).content.object
                   /\ Unwrap(response_str).content.error # "absent" ) )
           => rpc_result = RpcOk(Unwrap(response_str))
        /\ (rpc_result.kind = "Ok" \/ rpc_result = RpcError) => (r_log.read /\ CleanedUp)

\* C10 witness: a response whose error field is null was read, both files were
\* removed, and the call returned the RPC error.
C10_Witness ==
    /\ Returned /\ r_log.read /\ CleanedUp
    /\ rpc_result = RpcError
    /\ Unwrap(response_str).content.error = "null"

(***************************************************************************)
(* Properties of a run                                                     *)
(***************************************************************************)
Exited == m_pc = "exited"
Aborted == m_pc = "aborted"

\* the run went into a mode that uses the RPC channel
UsesRpc ==
    \/ entry = "rebalance_rpc"
    \/ entry = "lib_run" /\ input.line # "malformed" /\ input.has_reader
    \/ entry = "emergency" /\ input.emergency_ok

ConfigMissing == <<"WASM_RPC_WORK_DIR not set">>

\* the envelope carries an error message
IsErrorEnvelope(e) == ~e.ok /\ "error" \in DOMAIN e.result

\* the no-op envelope of output_skip
IsNoOpEnvelope(e) ==
    /\ e.ok
    /\ "skipRemainingSteps" \in DOMAIN e.result
    /\ e.result.skipRemainingSteps
    /\ "shouldActivate" \notin DOMAIN e.result

\* the envelope that asks for the activation of emergency mode
IsActivateEnvelope(e) ==
    e.ok /\ "shouldActivate" \in DOMAIN e.result /\ e.result.shouldActivate

\* C11: when WASM_RPC_WORK_DIR is unset, a run that enters an RPC-using mode (RPC-fed
\* rebalance, or the emergency check on an input it accepts) makes no contract call,
\* hence writes no request file, and ends with the single ok=false envelope whose
\* error is 'WASM_RPC_WORK_DIR not set'; when the directory is set, the request and
\* response file names are the defaults unless their variables are set.
C11_WorkDirRequired ==
    /\ ~env.work_dir => (rpc_calls = <<>> /\ rpc_config = None)
    /\ (~env.work_dir /\ UsesRpc /\ Exited) =>
          /\ Len(stdout) = 1
          /\ IsErrorEnvelope(stdout[1])
          /\ stdout[1].result.error = ConfigMissing
    /\ rpc_config # None =>
          /\ ~env.request_file => Unwrap(rpc_config).request_file = "wasm_rpc_request.json"
          /\ ~env.response_file => Unwrap(rpc_config).response_file = "wasm_rpc_response.json"

\* C11 witness: an emergency check without work directory has ended with the
\* ConfigMissing envelope and without any call.
C11_Witness ==
    /\ entry = "emergency" /\ input.emergency_ok /\ ~env.work_dir /\ Exited
    /\ stdout = <<output_error(ConfigMissing)>>
    /\ rpc_calls = <<>>

\* the outcome of the k-th contract call of the run
Made(k) == Len(rpc_calls) >= k
Failed(k) == Made(k) /\ rpc_calls[k].outcome.kind = "Err"
Answer(k) == rpc_calls[k].outcome.value
Answered(k) == Made(k) /\ rpc_calls[k].outcome.kind = "Ok"

\* isEmergencyMode returned false and no enabled guard is stale
GuardsFresh ==
    /\ Answered(1) /\ ~Answer(1)
    /\ Answered(2)
    /\ \A i \in DOMAIN Answer(2) : ~(Answer(2)[i].enabled /\ Answer(2)[i].is_stale)

ActivationDue == GuardsFresh /\ Answered(3) /\ Answer(3) >= 1

EmergencyEnded == entry = "emergency" /\ Exited /\ rpc_config # None

Carries(message, failure) ==
    /\ Len(message) >= Len(failure)
    /\ SubSeq(message, Len(message) - Len(failure) + 1, Len(message)) = failure

\* C13: in an emergency check that ended, a failure of isEmergencyMode or of
\* getGuardsStaleness gives the ok=false error envelope; a failure of
\* getAggregatedStatus gives the ok=true no-op envelope whose message carries the
\* failure, and no activation.
C13_StatusFailureIsNoOp ==
    EmergencyEnded =>
        /\ (Failed(1) \/ Failed(2)) =>
              /\ stdout = <<output_error(stdout[1].result.error)>>
              /\ Carries(stdout[1].result.error, rpc_calls[Len(rpc_calls)].outcome.error)
        /\ Failed(3) =>
              /\ Len(stdout) = 1
              /\ IsNoOpEnvelope(stdout[1])
              /\ Carries(stdout[1].result.message, rpc_calls[3].outcome.error)

\* C13 witness: the guards were fresh, getAggregatedStatus timed out and the run
\* ended with the no-op envelope.
C13_Witness ==
    /\ EmergencyEnded /\ GuardsFresh
    /\ Failed(3) /\ rpc_calls[3].outcome.error = <<"RPC call timeout after 10s">>
    /\ IsNoOpEnvelope(stdout[1])

\* the run is inside, or has been through, the optimizer's modes
InOptimizerModes == optimizer_input # None \/ m_pc \in {"run_with_rpc", "run_legacy", "get_snapshot"}

\* C14: run() dispatches on the action field: 'emergency-check' and 'emergency' never
\* reach the optimizer, and any action other than those, 'rebalance' or none ends with
\* one error envelope before either mode is entered.
C14_DispatchOnAction ==
    (entry = "lib_run" /\ input.line = "object" /\ m_pc # "start") =>
        /\ input.action \in {"emergency-check", "emergency"} =>
              m_pc \notin {"run_with_rpc", "run_legacy", "get_snapshot", "optimize"}
        /\ input.action = "other" =>
              /\ Exited /\ Len(stdout) = 1 /\ IsErrorEnvelope(stdout[1])
              /\ optimizer_input = None /\ rpc_calls = <<>>

\* C15: a run of run() on any stdin line never aborts, and when it has returned
\* exactly one envelope with a boolean ok is on stdout.
C15_AlwaysOneEnvelope ==
    entry = "lib_run" =>
        /\ ~Aborted
        /\ Exited => (Len(stdout) = 1 /\ stdout[1].ok \in BOOLEAN)

\* the error a failed run originates from
Origin ==
    IF rpc_calls # <<>> /\ Failed(Len(rpc_calls)) THEN rpc_calls[Len(rpc_calls)].outcome.error
    ELSE IF UsesRpc /\ ~env.work_dir THEN ConfigMissing
    ELSE stdout[1].result.error

\* C16: every run that ended in a failure printed the full error envelope with the
\* originating error's message unchanged; a timeout of getSnapshot is reported as
\* exactly 'RPC call timeout after 10s'.
C16_ErrorsReportedUnchanged ==
    (Exited /\ Len(stdout) = 1 /\ ~stdout[1].ok) => stdout = <<output_error(Origin)>>

(***************************************************************************)
(* Properties of repeated runs                                             *)
(***************************************************************************)
SecondRunDone == opt_run = 2 /\ o_pc = "done"

\* a result without its time_ms field
WithoutTime(res) == [ f \in DOMAIN res \ {"time_ms"} |-> res[f] ]

Applied(f) == c_pc = "done" /\ c_fn = f

IsHexString(s) ==
    /\ Len(s) = 66
    /\ s[1] = "0" /\ s[2] = "x"
    /\ \A i \in 3..Len(s) : \E k \in 1..16 : s[i] = HexChars[k]

\* C18: the hex string of every allocation and of every weight, in the best and in
\* the fallback branch alike, is '0x' followed by exactly 64 hex digits, whatever
\* the value: zero, negative, fractional, NaN or above u128::MAX.
C18_HexStringsAre66Chars ==
    (Applied("allocations_hex") \/ Applied("weights_wad")) => IsHexString(c_out)

\* C18 witness: an allocation above u128::MAX was formatted in the fallback branch
\* as 32 zeros followed by 32 f.
C18_Witness ==
    /\ Applied("allocations_hex") /\ c_in.branch = "current"
    /\ Len(c_in.a.int_digits) > U128Digits /\ ~c_in.a.negative
    /\ c_out = <<"0", "x">> \o [ i \in 1..64 |-> IF i <= 32 THEN "0" ELSE "f" ]

\* the condition under which the fallback is returned
FallbackCase(last_update, snapshot_timestamp) ==
    snapshot_timestamp = 0 \/ last_update = 0 \/ last_update >= snapshot_timestamp

Clamp(x, lo, hi) == IF x < lo THEN lo ELSE IF x > hi THEN hi ELSE x

\* C19: calc_dilution_time_delta returns 604800 when snapshot_timestamp = 0,
\* last_update = 0 or last_update >= snapshot_timestamp, and otherwise
\* snapshot_timestamp - last_update clamped into [3600, 2592000]; the result is
\* never 0 and the subtraction never goes below zero.
C19_TimeDeltaFallbackOrClamped ==
    Applied("calc_dilution_time_delta") =>
        LET out == Unwrap(c_out)
        IN  /\ out # U64Underflow /\ out # 0
            /\ IF FallbackCase(c_in.last_update, c_in.snapshot_timestamp)
               THEN out = 604800
               ELSE out = Clamp(c_in.snapshot_timestamp - c_in.last_update, 3600, 2592000)

\* C19 witness: the difference of the two timestamps exceeded 30 days and 2592000
\* was returned.
C19_Witness ==
    /\ Applied("calc_dilution_time_delta")
    /\ ~FallbackCase(c_in.last_update, c_in.snapshot_timestamp)
    /\ c_in.snapshot_timestamp - c_in.last_update > 2592000
    /\ Unwrap(c_out) = 2592000

\* the utilization after delta stays below the kink of the protocol's default curve
BelowKink(protocol, delta) ==
    /\ protocol.pool_supply + delta > 0
    /\ calc_new_utilization(protocol.pool_supply, protocol.pool_borrow, delta)
           <= get_default_irm_params(protocol.protocol_type).kink1

\* C20: for a protocol that is not MetaMorpho and delta1 <= delta2 whose utilizations
\* both stay below kink1, calc_supply_apy(delta2) <= calc_supply_apy(delta1).
C20_SupplyApyNonIncreasing ==
    ( /\ Applied("calc_supply_apy")
      /\ c_in.protocol.protocol_type # PROTO_MORPHO
      /\ c_in.delta1 <= c_in.delta2
      /\ BelowKink(c_in.protocol, c_in.delta1)
      /\ BelowKink(c_in.protocol, c_in.delta2) )
    => c_out[2] <= c_out[1]

\* C20 witness: a larger deposit into a lending pool gave a strictly lower APY.
C20_Witness ==
    /\ Applied("calc_supply_apy")
    /\ c_in.protocol.protocol_type # PROTO_MORPHO
    /\ c_in.delta1 < c_in.delta2
    /\ BelowKink(c_in.protocol, c_in.delta1)
    /\ BelowKink(c_in.protocol, c_in.delta2)
    /\ c_out[2] < c_out[1]

(***************************************************************************)
(* Properties of the order of the contract calls                           *)
(***************************************************************************)
EmergencyCalls == <<"isEmergencyMode", "getGuardsStaleness", "getAggregatedStatus">>

\* C24: at every moment of an emergency check the calls issued so far are the first
\* k of isEmergencyMode, getGuardsStaleness, getAggregatedStatus, each once; a call
\* is issued only after the one before returned Ok; getGuardsStaleness only after
\* isEmergencyMode returned false, getAggregatedStatus only when in addition no
\* enabled guard is stale.
C24_CallsInOrder ==
    entry = "emergency" =>
        /\ Len(rpc_calls) <= 3
        /\ \A k \in 1..Len(rpc_calls) : rpc_calls[k].function = EmergencyCalls[k]
        /\ \A k \in 2..Len(rpc_calls) : Answered(k - 1)
        /\ Made(2) => ~Answer(1)
        /\ Made(3) =>
              \A i \in DOMAIN Answer(2) : ~(Answer(2)[i].enabled /\ Answer(2)[i].is_stale)

\* C24 witness: all three calls were issued, the third after two guards were
\* reported, one of them stale but disabled.
C24_Witness ==
    /\ entry = "emergency" /\ Made(3)
    /\ Len(Answer(2)) = 2
    /\ \E i \in DOMAIN Answer(2) : Answer(2)[i].is_stale

(***************************************************************************)
(* Properties of the exchange of files with the host                       *)
(***************************************************************************)
\* C26: whenever the host has picked up a request file, it found the complete
\* contents in it, never an empty or partly written file.
C26_RequestSeenComplete ==
    host_pending # None => Unwrap(host_pending).complete

\* C27: a response that rpc_call returns was written by the host in reply to the
\* request of that same call, never to an earlier one.
C27_ResponseAnswersOwnRequest ==
    (Returned /\ rpc_result.kind = "Ok") => rpc_result.for = RequestId(run_no, call_no)

(***************************************************************************)
(* Properties of the optimizer's mask, caps and result vectors             *)
(***************************************************************************)
\* is_blocked as optimize and is_valid_allocation compute it for index i (0-based)
TreatedAsBlocked(i) == IsBlockedBit(blocked_mask, i)

\* the run aborted although no cap computation overflowed
ShiftAbort ==
    /\ o_pc = "panicked"
    /\ ~(total_assets > 0 /\ \E i \in 1..N : CapOverflows(protocols[i], config))

\* C29: for any number of protocols, protocol i is treated as blocked exactly
\* when i < 8 and bit i of blocked_mask is set, and the shift 1 << i never
\* aborts the run.
C29_BlockedIffOwnMaskBit ==
    /\ ~ShiftAbort
    /\ o_pc \in {"eval", "done"} =>
          \A i \in 0..(N - 1) : TreatedAsBlocked(i) <=> MaskBit(blocked_mask, i)

\* C30: every success result for total_assets > 0, from either branch, has
\* weights that sum to 1 and allocations that sum to total_assets, and its
\* allocations, weights and apys each have one entry per protocol.
C30_ResultSumsAndLengths ==
    (Succeeded /\ total_assets > 0) =>
        /\ SumSeq(result.weights_decimal) = WeightOne(config.step_pct)
        /\ SumSeq(result.allocations_decimal) = total_assets
        /\ Len(result.allocations_decimal) = N
        /\ Len(result.weights_decimal) = N
        /\ Len(result.apys) = N

\* the return of every candidate that passes the filter
ValidReturns == [ k \in ValidCandidates |-> CandidateReturn(k) ]

\* the candidates of ret whose return none exceeds
TopOf(ret) == { k \in DOMAIN ret : \A j \in DOMAIN ret : ret[j] <= ret[k] }

\* the first of a set of candidates in enumeration order
FirstOf(top) == CHOOSE k \in top : \A j \in top : k <= j

\* C23: among candidates of equal return the first in enumeration order is
\* the one returned; with total_assets = 0 the first candidate is returned,
\* with expected_return_12h = 0 and every allocation zero.
C23_TiesGoToFirstCandidate ==
    Done =>
        \A ret \in {ValidReturns} : \A top \in {TopOf(ret)} :
            /\ top # {} =>
                  /\ result.kind = "ok" /\ result.branch = "best"
                  /\ result.allocations_decimal =
                        Materialize(weights[FirstOf(top)], total_assets, config.step_pct)
            /\ total_assets = 0 =>
                  /\ result.kind = "ok" /\ result.branch = "best"
                  /\ top # {} /\ FirstOf(top) = 1
                  /\ result.expected_return_12h = 0
                  /\ \A i \in 1..N : result.allocations_decimal[i] = 0

C23_Witness ==
    /\ Done /\ total_assets > 0
    /\ \E ret \in {ValidReturns} : \E top \in {TopOf(ret)} :
          /\ top # {}
          /\ \E k \in top :
                /\ k > FirstOf(top)
                /\ Materialize(weights[k], total_assets, config.step_pct)
                     # Materialize(weights[FirstOf(top)], total_assets, config.step_pct)

\* C25: the result does not depend on the is_blocked field of any protocol: a
\* run on an input that differs only in these fields returns the same result,
\* and only protocols whose bit of blocked_mask is set are kept from growing.
C25_ResultIgnoresIsBlockedField ==
    SecondRunDone =>
        /\ WithoutTime(result) = WithoutTime(prev_result)
        /\ (result.kind = "ok" /\ result.branch = "best") =>
              \A i \in 1..N :
                  MaskBit(blocked_mask, i - 1) =>
                      result.allocations_decimal[i] <= protocols[i].our_balance

C25_Witness ==
    /\ SecondRunDone /\ result.kind = "ok" /\ result.branch = "best"
    /\ \E i \in 1..N :
          /\ protocols[i].is_blocked /\ ~MaskBit(blocked_mask, i - 1)
          /\ result.allocations_decimal[i] > protocols[i].our_balance
    /\ \E i \in 1..N :
          /\ ~protocols[i].is_blocked /\ MaskBit(blocked_mask, i - 1)

(***************************************************************************)
(* Properties relating the bounded grid to the full grid                   *)
(***************************************************************************)
\* candidate c of the full grid keeps every component within the caps
WithinCaps(c, max_steps, step_pct) ==
    \A i \in DOMAIN c : c[i] <= UnboundedWeight(max_steps[i], step_pct)

\* the full grid with the candidates beyond the caps left out, order kept
CappedFullGrid(n_protocols, step_pct, max_weights_pct) ==
    SelectSeq(generate_weight_grid(n_protocols, step_pct),
              LAMBDA c : WithinCaps(c, MaxSteps(max_weights_pct, step_pct), step_pct))

\* C22: for a step_pct that divides 100, generate_bounded_weight_grid emits
\* exactly the candidates of generate_weight_grid whose every component is
\* within its cap, each once and in the same order.
C22_BoundedGridIsCappedFullGrid ==
    (g_pc = "bounded" /\ 100 % g_step = 0) =>
        g_out = CappedFullGrid(g_n, g_step, g_caps)

C22_Witness ==
    /\ g_pc = "bounded" /\ 100 % g_step = 0 /\ g_n >= 2
    /\ Len(g_out) >= 2
    /\ Len(g_out) < Len(generate_weight_grid(g_n, g_step))
    /\ MaxSteps(g_caps, g_step)[g_n] < NSteps(g_step)
    /\ MaxSteps(g_caps, g_step)[1] < NSteps(g_step)

\* the full grid for the run's input, and its candidates that pass the filter
FullGrid == generate_weight_grid(N, config.step_pct)

FullValid ==
    LET grid == FullGrid
    IN  { k \in 1..Len(grid) :
            is_valid_allocation(Materialize(grid[k], total_assets, config.step_pct), protocols,
                blocked_mask, config.max_pool_share, config.min_allocation, overflow_checks)
            = "valid" }

FullReturn(k) ==
    LET a == Materialize(FullGrid[k], total_assets, config.step_pct)
    IN  Return12h(a, ApysOf(a, protocols, irm_params))

\* the first candidate of the full grid with the highest return among the valid ones
FullFirstTop ==
    LET valid == FullValid
        ret == [ k \in valid |-> FullReturn(k) ]
    IN  CHOOSE k \in valid :
            \A j \in valid : ret[j] < ret[k] \/ (ret[j] = ret[k] /\ k <= j)

\* C28: for total_assets > 0 the caps leave out no candidate that the filter
\* accepts, and optimize returns the allocations and the expected return that
\* a scan of the full grid with the same filter gives.
C28_CapsLoseNoValidCandidate ==
    (Done /\ total_assets > 0) =>
        LET grid == FullGrid
            valid == FullValid
        IN  /\ \A k \in valid : \E j \in 1..Len(weights) : weights[j] = grid[k]
            /\ valid # {} =>
                  LET top == FullFirstTop
                  IN  /\ result.kind = "ok"
                      /\ result.allocations_decimal =
                            Materialize(grid[top], total_assets, config.step_pct)
                      /\ result.expected_return_12h = FullReturn(top)

(***************************************************************************)
(* Properties of the optimizer on scenario S2                              *)
(***************************************************************************)
IsS2 == S2Input

\* C21 as stated: on the S2 input the optimizer reports 11 evaluated scenarios,
\* the full grid of two protocols at ten steps, and returns a best candidate,
\* not the current allocation.
C21_S2EvaluatesFullGrid ==
    (IsS2 /\ Done) =>
        /\ result.kind = "ok" /\ result.branch = "best"
        /\ result.scenarios_evaluated = 11

\* C21 amended: on the S2 input the second pool's cap of 51 percent leaves the
\* 6 candidates that give it at most 5 of the 10 steps; the optimizer reports
\* 6 evaluated scenarios and returns a best candidate with a positive return.
C21_S2EvaluatesBoundedGrid ==
    (IsS2 /\ Done) =>
        /\ result.kind = "ok" /\ result.branch = "best"
        /\ MaxSteps(MaxWeightsPct(total_assets, protocols, blocked_mask, config),
                    config.step_pct) = <<10, 5>>
        /\ result.scenarios_evaluated = 6
        /\ result.expected_return_12h > 0
        /\ SumSeq(result.allocations_decimal) = total_assets

C21_Witness == IsS2 /\ Done /\ result.kind = "ok" /\ valid_count > 0

====
